---- MODULE Spec2Model ----
(***************************************************************************)
(* Model of the pallet packing engine and of calculatePackageStats          *)
(* (src/src/utils/binPacking.ts) and of the calls made on them.            *)
(*                                                                         *)
(* Numbers.  The source computes in metres with floating point numbers.    *)
(* The model computes exactly, in integers, with the centimetre as unit of *)
(* length (1 = 0.01 m) and the kilogram as unit of weight.  Quantities the *)
(* source only compares (priorities, efficiencies, scores) are kept as     *)
(* exact fractions or scaled by a positive factor that is stated where the *)
(* quantity is defined.                                                    *)
(***************************************************************************)
EXTENDS Integers, Sequences, FiniteSets, TLC

VARIABLES
    constructed,        \* TRUE once `new BinPackingAlgorithm(cfg)` has run
    palletConfig,       \* this.palletConfig
    placedPackages,     \* this.placedPackages
    availablePositions, \* this.availablePositions
    packages,           \* argument of the last packPackages call
    result,             \* value returned by the last packPackages call
    trials,             \* what each strategy returned during the last call
    stats,              \* value returned by getPackingStatistics since the last
                        \* packPackages call, << >> when it was not called
    packageStats,       \* value returned by calculatePackageStats since the
                        \* last packPackages call, << >> when it was not called
    packed,             \* TRUE once packPackages has been called
    reused,             \* TRUE once packPackages has been called a second time
    call,               \* the last placePackageOptimized call made on its own:
                        \* its argument, the placed list and the anchors it
                        \* found, and the boolean it returned; << >> if none
    rotated,            \* the last generateRotations call made on its own: its
                        \* argument and the rotations returned; << >> if none
    strategyRun,        \* the last run of one strategy made on its own: the
                        \* strategy, the packages and the list returned;
                        \* << >> if none
    layerRun,           \* layerBasedPacking run one loop iteration at a time:
                        \* its locals and its position; << >> if none
    page                \* the state of the page (src/src/pages/Index.tsx) and
                        \* of an optimisation that waits; << >> before the
                        \* page is open

vars == <<constructed, palletConfig, placedPackages, availablePositions,
          packages, result, trials, stats, packageStats, packed, reused, call,
          rotated,
          strategyRun,
          layerRun,
          page>>

----------------------------------------------------------------------------
(* Bounds of the model *)

\* largest number of boxes placed by single placePackageOptimized calls
MaxPlaced == 3

\* largest duplicateCount of a submitted package
MaxDuplicate == 2

\* largest dimension (cm) of a package handed to generateRotations on its own
MaxDim == 4

\* largest number of packages added to the page
MaxAdded == 2

----------------------------------------------------------------------------
(* Program constants *)

\* ROUNDING_TOLERANCE = 0.0005 m = 1/20 cm
ToleranceInv == 20

\* stepSize = 0.01 m = 1 cm
stepSize == 1

\* top N most common package types tried by uniformPackingOptimization
TopTypes == 3

----------------------------------------------------------------------------
(* Generic helpers *)

Abs(a) == IF a < 0 THEN 0 - a ELSE a

Max2(a, b) == IF a > b THEN a ELSE b

Min2(a, b) == IF a < b THEN a ELSE b

\* Array.prototype.sort with a comparator: a stable sort.  Before(a, b) is
\* "the comparator returns a negative number for (a, b)".
StableSort(s, Before(_, _)) ==
    LET n == Len(s)
        rank == [i \in 1..n |->
                   Cardinality({j \in 1..n :
                        \/ Before(s[j], s[i])
                        \/ (j < i /\ ~Before(s[i], s[j]))})]
    IN  [k \in 1..n |-> s[CHOOSE i \in 1..n : rank[i] = k - 1]]

\* const x = value; followed by Body(x): the value is computed once, before
\* the body is entered
With(value, Body(_)) == CHOOSE r \in {Body(x) : x \in {value}} : TRUE

RECURSIVE SumSeq(_, _)
\* s.reduce((total, e) => total + f(e), 0) for the values v[i] already mapped
SumSeq(v, i) == IF i = 0 THEN 0 ELSE SumSeq(v, i - 1) + v[i]

approxEqual(a, b) == Abs(a - b) * ToleranceInv <= 1

approxLessOrEqual(a, b) == a <= b \/ approxEqual(a, b)

----------------------------------------------------------------------------
(* Engine state threaded through the private methods: the two mutable      *)
(* fields of the instance.  this.placedPackages is a reference to an       *)
(* array: returned tells that the array it refers to has been returned to  *)
(* the caller of a strategy, returnedChanged that such an array was        *)
(* changed after it was returned.                                          *)

Engine(placed, positions) ==
    [placedPackages |-> placed, availablePositions |-> positions,
     returned |-> FALSE, returnedChanged |-> FALSE]

noPackages == << >>

initializePositions(eng) ==
    [eng EXCEPT !.availablePositions =
        << [x |-> 0, y |-> palletConfig.baseHeight, z |-> 0] >>]

\* the workspace of the previous run is kept
keepWorkspace(eng) == eng

\* this.placedPackages = []; this.initializePositions();
resetWorkspace(eng) ==
    initializePositions([eng EXCEPT !.placedPackages = noPackages, !.returned = FALSE])

getCurrentWeight(eng) ==
    LET p == eng.placedPackages
    IN  SumSeq([i \in 1..Len(p) |-> p[i].weight], Len(p))

canAddPackageWeight(eng, packageWeight) ==
    getCurrentWeight(eng) + packageWeight <= palletConfig.maxWeight

----------------------------------------------------------------------------
(* Geometry and rotation *)

Rot(l, w, h, angles) ==
    [length |-> l, width |-> w, height |-> h, rotationAngles |-> angles]

\* the switch without its break statements: a case falls through to the next
generateRotationsFallThrough(pkg) ==
    LET length == pkg.length
        width == pkg.width
        height == pkg.height
        horizontal == << Rot(length, width, height, <<0, 0, 0>>),
                         Rot(width, length, height, <<0, 90, 0>>) >>
        vertical == << Rot(length, width, height, <<0, 0, 0>>) >>
        all == << Rot(length, width, height, <<0, 0, 0>>),
                  Rot(width, length, height, <<0, 90, 0>>),
                  Rot(length, height, width, <<90, 0, 0>>),
                  Rot(height, width, length, <<0, 0, 90>>),
                  Rot(width, height, length, <<90, 90, 0>>),
                  Rot(height, length, width, <<90, 0, 90>>) >>
    IN  CASE pkg.rotationType = "horizontal" -> horizontal \o vertical \o all
          [] pkg.rotationType = "vertical" -> vertical \o all
          [] pkg.rotationType = "all" -> all
          [] OTHER -> << >>

\* angles are in degrees: 90 stands for Math.PI / 2
generateRotations(pkg) ==
    LET length == pkg.length
        width == pkg.width
        height == pkg.height
    IN  CASE pkg.rotationType = "horizontal" ->
               << Rot(length, width, height, <<0, 0, 0>>),
                  Rot(width, length, height, <<0, 90, 0>>) >>
          [] pkg.rotationType = "vertical" ->
               << Rot(length, width, height, <<0, 0, 0>>) >>
          [] pkg.rotationType = "all" ->
               << Rot(length, width, height, <<0, 0, 0>>),
                  Rot(width, length, height, <<0, 90, 0>>),
                  Rot(length, height, width, <<90, 0, 0>>),
                  Rot(height, width, length, <<0, 0, 90>>),
                  Rot(width, height, length, <<90, 90, 0>>),
                  Rot(height, length, width, <<90, 0, 90>>) >>
          [] OTHER -> << >>

\* a test that takes boxes with touching faces as colliding
checkCollisionTouching(box1, box2) ==
    ~ ( \/ box1.x + box1.length < box2.x
        \/ box2.x + box2.length < box1.x
        \/ box1.y + box1.height < box2.y
        \/ box2.y + box2.height < box1.y
        \/ box1.z + box1.width < box2.z
        \/ box2.z + box2.width < box1.z )

checkCollision(box1, box2) ==
    ~ ( \/ approxLessOrEqual(box1.x + box1.length, box2.x)
        \/ approxLessOrEqual(box2.x + box2.length, box1.x)
        \/ approxLessOrEqual(box1.y + box1.height, box2.y)
        \/ approxLessOrEqual(box2.y + box2.height, box1.y)
        \/ approxLessOrEqual(box1.z + box1.width, box2.z)
        \/ approxLessOrEqual(box2.z + box2.width, box1.z) )

Box(x, y, z, l, w, h) ==
    [x |-> x, y |-> y, z |-> z, length |-> l, width |-> w, height |-> h]

canPlaceAtPosition(eng, rotation, position) ==
    /\ approxLessOrEqual(position.x + rotation.length, palletConfig.length)
    /\ approxLessOrEqual(position.z + rotation.width, palletConfig.width)
    /\ approxLessOrEqual(position.y + rotation.height,
                         palletConfig.baseHeight + palletConfig.loadHeight)
    /\ \A i \in 1..Len(eng.placedPackages) :
          LET placed == eng.placedPackages[i]
          IN  ~checkCollision(
                 Box(position.x, position.y, position.z,
                     rotation.length, rotation.width, rotation.height),
                 Box(placed.x, placed.y, placed.z,
                     placed.actualLength, placed.actualWidth, placed.actualHeight))

\* { ...pkg, x, y, z, actualLength, actualWidth, actualHeight, rotation }
createPlacedPackage(pkg, position, rotation) ==
    [id |-> pkg.id, length |-> pkg.length, width |-> pkg.width,
     height |-> pkg.height, weight |-> pkg.weight,
     rotationType |-> pkg.rotationType, duplicateCount |-> pkg.duplicateCount,
     x |-> position.x, y |-> position.y, z |-> position.z,
     actualLength |-> rotation.length, actualWidth |-> rotation.width,
     actualHeight |-> rotation.height, rotation |-> rotation.rotationAngles]

----------------------------------------------------------------------------
(* Candidate position set *)

isValidPosition(position) ==
    /\ position.x >= 0
    /\ position.y >= palletConfig.baseHeight
    /\ position.z >= 0
    /\ approxLessOrEqual(position.x, palletConfig.length)
    /\ approxLessOrEqual(position.y, palletConfig.baseHeight + palletConfig.loadHeight)
    /\ approxLessOrEqual(position.z, palletConfig.width)

samePosition(pos, position) ==
    /\ approxEqual(pos.x, position.x)
    /\ approxEqual(pos.y, position.y)
    /\ approxEqual(pos.z, position.z)

\* a test that finds no position present
positionExistsNever(eng, position) == FALSE

positionExists(eng, position) ==
    \E i \in 1..Len(eng.availablePositions) :
        samePosition(eng.availablePositions[i], position)

\* a comparator that orders by y, then x, then z
positionBeforeByX(a, b) ==
    IF ~approxEqual(a.y, b.y) THEN a.y - b.y < 0
    ELSE IF ~approxEqual(a.x, b.x) THEN a.x - b.x < 0
    ELSE a.z - b.z < 0

\* the comparator of the sort in updateAvailablePositions returns a negative number
positionBefore(a, b) ==
    IF ~approxEqual(a.y, b.y) THEN a.y - b.y < 0
    ELSE IF ~approxEqual(a.z, b.z) THEN a.z - b.z < 0
    ELSE a.x - b.x < 0

Pos(x, y, z) == [x |-> x, y |-> y, z |-> z]

updateAvailablePositions(eng, placedPackage) ==
    LET p == placedPackage
        positions ==
            << Pos(p.x + p.actualLength, p.y, p.z),
               Pos(p.x, p.y, p.z + p.actualWidth),
               Pos(p.x, p.y + p.actualHeight, p.z),
               Pos(p.x + p.actualLength, p.y + p.actualHeight, p.z),
               Pos(p.x, p.y + p.actualHeight, p.z + p.actualWidth),
               Pos(p.x + p.actualLength, p.y, p.z + p.actualWidth),
               Pos(p.x + p.actualLength, p.y + p.actualHeight, p.z + p.actualWidth) >>
        newPositions ==
            SelectSeq(positions,
                      LAMBDA pos : isValidPosition(pos) /\ ~positionExists(eng, pos))
    IN  [eng EXCEPT !.availablePositions =
            StableSort(eng.availablePositions \o newPositions, positionBefore)]

\* the used position is left among the anchors
removeUsedPositionKept(eng, position) == eng

removeUsedPosition(eng, position) ==
    [eng EXCEPT !.availablePositions =
        SelectSeq(eng.availablePositions, LAMBDA pos : ~samePosition(pos, position))]

RECURSIVE positionsFromPlaced(_, _)
positionsFromPlaced(eng, i) ==
    IF i = 0 THEN eng
    ELSE updateAvailablePositions(positionsFromPlaced(eng, i - 1), eng.placedPackages[i])

updateAvailablePositionsFromPlaced(eng) ==
    positionsFromPlaced(
        [eng EXCEPT !.availablePositions =
            << Pos(0, palletConfig.baseHeight, 0) >>],
        Len(eng.placedPackages))

----------------------------------------------------------------------------
(* Single-box greedy placer *)

\* rightSpace + frontSpace + topSpace * 0.5, times 2
calculateWastedSpace(position, rotation) ==
    LET rightSpace == palletConfig.length - (position.x + rotation.length)
        frontSpace == palletConfig.width - (position.z + rotation.width)
        topSpace == (palletConfig.baseHeight + palletConfig.loadHeight)
                        - (position.y + rotation.height)
    IN  2 * rightSpace + 2 * frontSpace + topSpace

\* heightScore + positionScore + wastedSpace, times 2 (lower is better)
evaluatePositionScore(position, rotation) ==
    LET heightScore == position.y * 10
        positionScore == position.z * 5 + position.x * 2
    IN  2 * heightScore + 2 * positionScore + calculateWastedSpace(position, rotation)

\* a search that lets a later pair of equal score replace the best
betterPairLast(eng, rotation, position, best) ==
    IF canPlaceAtPosition(eng, rotation, position)
       /\ (best = << >> \/ evaluatePositionScore(position, rotation) <= best[1])
    THEN <<evaluatePositionScore(position, rotation), position, rotation>>
    ELSE best

\* the comparison of the inner loop body: a feasible pair replaces the best
\* one only when its score is strictly lower (bestScore starts at Infinity)
betterPair(eng, rotation, position, best) ==
    IF canPlaceAtPosition(eng, rotation, position)
       /\ (best = << >> \/ evaluatePositionScore(position, rotation) < best[1])
    THEN <<evaluatePositionScore(position, rotation), position, rotation>>
    ELSE best

RECURSIVE scanPositions(_, _, _, _, _)
\* the inner loop of placePackageOptimized over the positions lo..hi of
\* this.availablePositions: the positions up to the middle, then the others
scanPositions(eng, rotation, lo, hi, best) ==
    IF lo > hi THEN best
    ELSE IF lo = hi THEN betterPair(eng, rotation, eng.availablePositions[lo], best)
    ELSE With(scanPositions(eng, rotation, lo, (lo + hi) \div 2, best),
              LAMBDA half : scanPositions(eng, rotation, (lo + hi) \div 2 + 1, hi, half))

RECURSIVE placeScan(_, _, _, _, _)
\* the outer loop of placePackageOptimized over the rotations lo..hi (the
\* rotations up to the middle, then the others); best is << >> (nothing
\* found: bestScore = Infinity) or <<score, position, rotation>>
placeScan(eng, rotations, lo, hi, best) ==
    IF lo > hi THEN best
    ELSE IF lo = hi
    THEN scanPositions(eng, rotations[lo], 1, Len(eng.availablePositions), best)
    ELSE With(placeScan(eng, rotations, lo, (lo + hi) \div 2, best),
              LAMBDA half : placeScan(eng, rotations, (lo + hi) \div 2 + 1, hi, half))

\* this.placedPackages.push(placedPackage); this.updateAvailablePositions(placedPackage);
\* this.removeUsedPosition(bestPosition)
pushPlaced(eng, placedPackage, position) ==
    removeUsedPosition(
        updateAvailablePositions(
            [eng EXCEPT !.placedPackages = Append(@, placedPackage),
                        !.returnedChanged = @ \/ eng.returned], placedPackage),
        position)

\* the part of placePackageOptimized after the search
placeBest(eng, pkg, best) ==
    IF best # << >>
    THEN [ok |-> TRUE,
          eng |-> pushPlaced(eng, createPlacedPackage(pkg, best[2], best[3]), best[2])]
    ELSE [ok |-> FALSE, eng |-> eng]

\* returns the engine after the call and the boolean the method returns
placePackageOptimized(eng, pkg) ==
    placeBest(eng, pkg,
        IF Len(eng.availablePositions) = 0 THEN << >>
        ELSE placeScan(eng, generateRotations(pkg), 1, Len(generateRotations(pkg)), << >>))

----------------------------------------------------------------------------
(* Package expansion and grouping *)

\* the instance id `${pkg.id}_${i}`: ids are sequences of symbols
instanceId(id, i) == id \o <<"_", i>>

RECURSIVE expandFrom(_, _)
expandFrom(pkgs, n) ==
    IF n = 0 THEN << >>
    ELSE expandFrom(pkgs, n - 1) \o
         [i \in 1..pkgs[n].duplicateCount |->
             [pkgs[n] EXCEPT !.id = instanceId(pkgs[n].id, i - 1)]]

expandPackages(pkgs) == expandFrom(pkgs, Len(pkgs))

\* `${length}x${width}x${height}x${weight}x${rotationType}`
packageKey(pkg) == <<pkg.length, pkg.width, pkg.height, pkg.weight, pkg.rotationType>>

getTypeKey(type) ==
    <<type.dimensions.length, type.dimensions.width, type.dimensions.height,
      type.weight, type.rotationType>>

getPackageTypeKey(pkg) == packageKey(pkg)

\* if (!typeMap.has(key)) typeMap.set(key, {...}), on the sequence of the
\* map's values in insertion order
withType(types, pkg) ==
    IF \E t \in 1..Len(types) : getTypeKey(types[t]) = packageKey(pkg) THEN types
    ELSE Append(types,
            [dimensions |-> [length |-> pkg.length, width |-> pkg.width,
                             height |-> pkg.height],
             count |-> 0, weight |-> pkg.weight,
             rotationType |-> pkg.rotationType, packages |-> << >>])

\* type.count++; type.packages.push(pkg)
countPackage(types, pkg) ==
    [t \in 1..Len(types) |->
        IF getTypeKey(types[t]) = packageKey(pkg)
        THEN [types[t] EXCEPT !.count = @ + 1, !.packages = Append(@, pkg)]
        ELSE types[t]]

RECURSIVE groupInto(_, _)
\* the typeMap after the first n packages
groupInto(pkgs, n) ==
    IF n = 0 THEN << >>
    ELSE countPackage(withType(groupInto(pkgs, n - 1), pkgs[n]), pkgs[n])

groupPackagesByType(pkgs) ==
    StableSort(groupInto(pkgs, Len(pkgs)), LAMBDA a, b : b.count - a.count < 0)

----------------------------------------------------------------------------
(* Quality evaluator *)

actualVolume(p) == p.actualLength * p.actualWidth * p.actualHeight

usedVolumeOf(placed) ==
    SumSeq([i \in 1..Len(placed) |-> actualVolume(placed[i])], Len(placed))

weightOf(placed) ==
    SumSeq([i \in 1..Len(placed) |-> placed[i].weight], Len(placed))

palletVolume == palletConfig.length * palletConfig.width * palletConfig.loadHeight

\* volumeUtilization * 0.5 + (packageCount / 1000) * 0.3 + weightUtilization * 0.2,
\* times 10000 * palletVolume * maxWeight (the same positive factor for every
\* score of one engine).  weightUtilization reads this.placedPackages.
evaluatePackingQuality(eng, placed) ==
    IF Len(placed) = 0 THEN 0
    ELSE LET totalVolume == usedVolumeOf(placed)
             packageCount == Len(placed)
             currentWeight == getCurrentWeight(eng)
         IN  5000 * totalVolume * palletConfig.maxWeight
               + 3 * packageCount * palletVolume * palletConfig.maxWeight
               + 2000 * currentWeight * palletVolume

----------------------------------------------------------------------------
(* Uniform packing *)

RECURSIVE uniformFill(_, _, _, _, _, _)
\* the three nested loops of packUniformBoxes: packageIndex n fixes layer,
\* column and row; the weight test returns the result built so far
uniformFill(pkgs, rotation, n, packagesToPlace, currentWeight, res) ==
    IF n >= packagesToPlace THEN res
    ELSE LET packagesPerRow == palletConfig.length \div rotation.length
             packagesPerColumn == palletConfig.width \div rotation.width
             perLayer == packagesPerRow * packagesPerColumn
             layer == n \div perLayer
             col == (n % perLayer) \div packagesPerRow
             row == n % packagesPerRow
             pkg == pkgs[n + 1]
         IN  IF currentWeight + pkg.weight > palletConfig.maxWeight THEN res
             ELSE uniformFill(pkgs, rotation, n + 1, packagesToPlace,
                      currentWeight + pkg.weight,
                      Append(res,
                          createPlacedPackage(pkg,
                              Pos(row * rotation.length,
                                  palletConfig.baseHeight + layer * rotation.height,
                                  col * rotation.width),
                              rotation)))

\* the number of layers taken from the height above the floor, base included
packUniformBoxesTotalHeight(pkgs, rotation) ==
    LET packagesPerRow == palletConfig.length \div rotation.length
        packagesPerColumn == palletConfig.width \div rotation.width
        layersCount == (palletConfig.baseHeight + palletConfig.loadHeight)
                            \div rotation.height
        totalCapacity == packagesPerRow * packagesPerColumn * layersCount
        packagesToPlace == Min2(Len(pkgs), totalCapacity)
    IN  uniformFill(pkgs, rotation, 0, packagesToPlace, 0, << >>)

packUniformBoxes(pkgs, rotation) ==
    LET packagesPerRow == palletConfig.length \div rotation.length
        packagesPerColumn == palletConfig.width \div rotation.width
        layersCount == palletConfig.loadHeight \div rotation.height
        totalCapacity == packagesPerRow * packagesPerColumn * layersCount
        packagesToPlace == Min2(Len(pkgs), totalCapacity)
    IN  uniformFill(pkgs, rotation, 0, packagesToPlace, 0, << >>)

\* a comparison that lets a later result of the same length replace the best
moreBoxesLast(res, best) == IF Len(res) >= Len(best) THEN res ELSE best

\* if (result.length > bestCount) { bestCount = result.length; bestResult = result }
moreBoxes(res, best) == IF Len(res) > Len(best) THEN res ELSE best

RECURSIVE bestRotationResult(_, _, _, _)
\* the loop of optimizeForSingleType over the rotations
bestRotationResult(type, rotations, r, best) ==
    IF r > Len(rotations) THEN best
    ELSE bestRotationResult(type, rotations, r + 1,
             moreBoxes(packUniformBoxes(type.packages, rotations[r]), best))

\* returns the result and the engine it leaves behind
optimizeForSingleType(eng, type) ==
    [result |-> bestRotationResult(type, generateRotations(type.packages[1]), 1, << >>),
     eng |-> [resetWorkspace(eng) EXCEPT !.placedPackages = noPackages,
                                         !.returned = FALSE]]

RECURSIVE uniformTypes(_, _, _, _)
\* the loop of uniformPackingOptimization over the first types
uniformTypes(eng, types, t, best) ==
    IF t > Min2(Len(types), TopTypes) THEN [result |-> best, eng |-> eng]
    ELSE With(optimizeForSingleType(eng, types[t]), LAMBDA one :
             uniformTypes(one.eng, types, t + 1, moreBoxes(one.result, best)))

uniformPackingOptimization(eng, packageTypes) ==
    uniformTypes(eng, packageTypes, 1, << >>)

----------------------------------------------------------------------------
(* Greedy and hybrid packing *)

\* if (this.canAddPackageWeight(pkg.weight)) this.placePackageOptimized(pkg)
placeOne(eng, pkg) ==
    IF canAddPackageWeight(eng, pkg.weight)
    THEN placePackageOptimized(eng, pkg).eng
    ELSE eng

RECURSIVE placeAll(_, _, _, _)
\* for (const pkg of pkgs) ... over the packages lo..hi: the packages up to
\* the middle, then the others
placeAll(eng, pkgs, lo, hi) ==
    IF lo > hi THEN eng
    ELSE IF lo = hi THEN placeOne(eng, pkgs[lo])
    ELSE With(placeAll(eng, pkgs, lo, (lo + hi) \div 2),
              LAMBDA half : placeAll(half, pkgs, (lo + hi) \div 2 + 1, hi))

\* the packages the loop goes through
placeEach(eng, pkgs) == placeAll(eng, pkgs, 1, Len(pkgs))

RECURSIVE concatPackages(_, _)
concatPackages(types, t) ==
    IF t = 0 THEN << >> ELSE concatPackages(types, t - 1) \o types[t].packages

\* this.placedPackages = [...primaryResult]
seedWith(primary) ==
    [primary.eng EXCEPT !.placedPackages = primary.result, !.returned = FALSE]

\* the packages of all types whose id is not among the placed ones
notPlaced(eng, pkgs) ==
    SelectSeq(pkgs, LAMBDA pkg :
        \A i \in 1..Len(eng.placedPackages) : eng.placedPackages[i].id # pkg.id)

\* the part of hybridPacking after the seed; returns this.placedPackages
hybridFill(seeded, packageTypes) ==
    placeEach(updateAvailablePositionsFromPlaced(seeded),
              notPlaced(seeded, concatPackages(packageTypes, Len(packageTypes))))

\* the value a strategy returns when it returns this.placedPackages
returnPlaced(eng) ==
    [result |-> eng.placedPackages, eng |-> [eng EXCEPT !.returned = TRUE]]

hybridPacking(eng, packageTypes) ==
    returnPlaced(
        hybridFill(IF Len(packageTypes) > 0
                   THEN seedWith(optimizeForSingleType(resetWorkspace(eng),
                                                       packageTypes[1]))
                   ELSE resetWorkspace(eng),
                   packageTypes))

volumeOf(pkg) == pkg.length * pkg.width * pkg.height

\* the sorted copies of the package list tried by greedyPacking, in order
greedyOrders(pkgs) ==
    << StableSort(pkgs, LAMBDA a, b : volumeOf(b) - volumeOf(a) < 0),
       StableSort(pkgs, LAMBDA a, b : b.height - a.height < 0),
       StableSort(pkgs, LAMBDA a, b : b.length * b.width - a.length * a.width < 0),
       \* densityB - densityA < 0, with density = weight / volume
       StableSort(pkgs, LAMBDA a, b :
                      b.weight * volumeOf(a) - a.weight * volumeOf(b) < 0) >>

\* if (score > bestScore) { bestScore = score; bestResult = [...this.placedPackages] }
\* for the workspace `after` a sorted copy leaves behind
greedyKeep(st, after, score) ==
    IF score > st.bestScore
    THEN [eng |-> after, bestResult |-> after.placedPackages, bestScore |-> score]
    ELSE [eng |-> after, bestResult |-> st.bestResult, bestScore |-> st.bestScore]

greedyScored(st, after) ==
    greedyKeep(st, after, evaluatePackingQuality(after, after.placedPackages))

\* a sort order that goes on from the placement of the order before it
greedyTrialCarried(st, sortedPackages) ==
    greedyScored(st, placeEach(st.eng, sortedPackages))

\* the body of the loop of greedyPacking for one sorted copy
greedyTrial(st, sortedPackages) ==
    greedyScored(st, placeEach(resetWorkspace(st.eng), sortedPackages))

RECURSIVE greedyTrials(_, _, _, _)
\* the loop of greedyPacking over the sorted copies lo..hi: the copies up to
\* the middle, then the others
greedyTrials(orders, lo, hi, st) ==
    IF lo > hi THEN st
    ELSE IF lo = hi THEN greedyTrial(st, orders[lo])
    ELSE With(greedyTrials(orders, lo, (lo + hi) \div 2, st),
              LAMBDA half : greedyTrials(orders, (lo + hi) \div 2 + 1, hi, half))

\* return bestResult, with the workspace left behind
greedyReturn(st) == [result |-> st.bestResult, eng |-> st.eng]

greedyPacking(eng, pkgs) ==
    greedyReturn(
        greedyTrials(greedyOrders(pkgs), 1, Len(greedyOrders(pkgs)),
                     [eng |-> resetWorkspace(eng), bestResult |-> << >>,
                      bestScore |-> 0]))

----------------------------------------------------------------------------
(* Layer-based packing *)

\* volumeEfficiency * 0.7 + countEfficiency * 0.3 as the exact fraction num / den
calculateLayerEfficiency(pkgs, layerHeight) ==
    IF Len(pkgs) = 0 THEN [num |-> 0, den |-> 1]
    ELSE LET totalPackageVolume == usedVolumeOf(pkgs)
             layerVolume == palletConfig.length * palletConfig.width * layerHeight
             packageCount == Len(pkgs)
             smallest == CHOOSE v \in {actualVolume(pkgs[i]) : i \in 1..Len(pkgs)} :
                            \A i \in 1..Len(pkgs) : v <= actualVolume(pkgs[i])
             maxPossiblePackages == layerVolume \div smallest
         IN  [num |-> 7 * totalPackageVolume * maxPossiblePackages
                        + 3 * packageCount * layerVolume,
              den |-> 10 * layerVolume * maxPossiblePackages]

\* a.efficiency > b.efficiency
efficiencyGreater(a, b) == a.num * b.den > b.num * a.den

\* { packages: layerPackages, height, efficiency }
LayerPlan(layerPackages, height) ==
    [packages |-> layerPackages,
     height |-> height,
     efficiency |-> calculateLayerEfficiency(layerPackages, height)]

RECURSIVE uniformLayerLoop(_, _, _, _, _, _)
\* the two nested loops of createUniformLayer at (col, row); st holds
\* layerPackages, currentWeight and packageIndex.  The weight test breaks the
\* inner loop only.
uniformLayerLoop(pkgs, rotation, startHeight, col, row, st) ==
    LET packagesPerRow == palletConfig.length \div rotation.length
        packagesPerColumn == palletConfig.width \div rotation.width
    IN  IF ~(col < packagesPerColumn /\ st.packageIndex < Len(pkgs)) THEN st
        ELSE IF ~(row < packagesPerRow /\ st.packageIndex < Len(pkgs))
        THEN uniformLayerLoop(pkgs, rotation, startHeight, col + 1, 0, st)
        ELSE LET pkg == pkgs[st.packageIndex + 1]
             IN  IF st.currentWeight + pkg.weight > palletConfig.maxWeight
                 THEN uniformLayerLoop(pkgs, rotation, startHeight, col + 1, 0, st)
                 ELSE uniformLayerLoop(pkgs, rotation, startHeight, col, row + 1,
                        [layerPackages |->
                            Append(st.layerPackages,
                                createPlacedPackage(pkg,
                                    Pos(row * rotation.length, startHeight,
                                        col * rotation.width),
                                    rotation)),
                         currentWeight |-> st.currentWeight + pkg.weight,
                         packageIndex |-> st.packageIndex + 1])

createUniformLayer(eng, pkgs, rotation, startHeight) ==
    LayerPlan(uniformLayerLoop(pkgs, rotation, startHeight, 0, 0,
                  [layerPackages |-> << >>,
                   currentWeight |-> getCurrentWeight(eng),
                   packageIndex |-> 0]).layerPackages,
              rotation.height)

\* the spaces occupied in the layer are not consulted
conflictsIgnored(rotation, occupiedSpaces, x, z) == FALSE

\* occupiedSpaces.some(space => !(x + rotation.length <= space.x1 || x >= space.x2 ||
\*                                z + rotation.width <= space.z1 || z >= space.z2))
conflicts(rotation, occupiedSpaces, x, z) ==
    \E i \in 1..Len(occupiedSpaces) :
        ~ ( \/ x + rotation.length <= occupiedSpaces[i].x1
            \/ x >= occupiedSpaces[i].x2
            \/ z + rotation.width <= occupiedSpaces[i].z1
            \/ z >= occupiedSpaces[i].z2 )

RECURSIVE layerScan(_, _, _, _, _, _)
\* the two nested loops of findBestPositionInLayer at (z, x); returns << >>
\* for null and <<position>> for a position
layerScan(eng, rotation, layerY, occupiedSpaces, z, x) ==
    IF ~(z <= palletConfig.width - rotation.width) THEN << >>
    ELSE IF ~(x <= palletConfig.length - rotation.length)
    THEN layerScan(eng, rotation, layerY, occupiedSpaces, z + stepSize, 0)
    ELSE IF /\ ~conflicts(rotation, occupiedSpaces, x, z)
            /\ canPlaceAtPosition(eng, rotation, Pos(x, layerY, z))
    THEN << Pos(x, layerY, z) >>
    ELSE layerScan(eng, rotation, layerY, occupiedSpaces, z, x + stepSize)

findBestPositionInLayer(eng, rotation, layerY, occupiedSpaces) ==
    layerScan(eng, rotation, layerY, occupiedSpaces, 0, 0)

\* density * 1000 + baseArea * 100 (+ 50 for the original orientation), with
\* lengths in metres.  With lengths in centimetres, 100 * priority is
\*     10^11 * weight / volume + baseArea + 5000 * bonus,
\* kept as the fraction weight / volume and the integer rest.
calculatePackagePriority(pkg, rotation) ==
    LET volume == rotation.length * rotation.width * rotation.height
        baseArea == rotation.length * rotation.width
        bonus == IF /\ rotation.length = pkg.length
                    /\ rotation.width = pkg.width
                    /\ rotation.height = pkg.height
                 THEN 1 ELSE 0
    IN  [weight |-> pkg.weight, volume |-> volume, rest |-> baseArea + 5000 * bonus]

\* a > b for two priorities:
\*     10^11 * (a.weight * b.volume - b.weight * a.volume)
\*        + (a.rest - b.rest) * a.volume * b.volume > 0
\* and, for integers d and f, 10^11 * d + f > 0 iff d > floor(-f / 10^11)
priorityGreater(a, b) ==
    LET d == a.weight * b.volume - b.weight * a.volume
        f == (a.rest - b.rest) * a.volume * b.volume
    IN  d > ((0 - f) \div 100000) \div 1000000

\* the entries pushed for one package and its rotations that fit the height
suitableOfPackage(pkg, rotations) ==
    [r \in 1..Len(rotations) |->
        [pkg |-> pkg, rotation |-> rotations[r],
         priority |-> calculatePackagePriority(pkg, rotations[r])]]

RECURSIVE suitableOfType(_, _, _)
RECURSIVE suitableOfAll(_, _, _)

\* the entries pushed for the first n packages of one type
suitableOfType(pkgs, n, availableHeight) ==
    IF n = 0 THEN << >>
    ELSE suitableOfType(pkgs, n - 1, availableHeight) \o
         suitableOfPackage(pkgs[n],
             SelectSeq(generateRotations(pkgs[n]),
                       LAMBDA rotation : rotation.height <= availableHeight))

suitableOfAll(remainingPackages, t, availableHeight) ==
    IF t = 0 THEN << >>
    ELSE suitableOfAll(remainingPackages, t - 1, availableHeight) \o
         suitableOfType(remainingPackages[t].packages,
                        Len(remainingPackages[t].packages), availableHeight)

\* the body of `if (position) { ... }` in createMixedLayer; found is the
\* value of findBestPositionInLayer
mixedPlace(st, pkg, rotation, found) ==
    IF found = << >> THEN st
    ELSE [layerPackages |->
              Append(st.layerPackages, createPlacedPackage(pkg, found[1], rotation)),
          currentWeight |-> st.currentWeight + pkg.weight,
          occupiedSpaces |->
              Append(st.occupiedSpaces,
                  [x1 |-> found[1].x,
                   x2 |-> found[1].x + rotation.length,
                   z1 |-> found[1].z,
                   z2 |-> found[1].z + rotation.width])]

\* the body of the placement loop of createMixedLayer for one entry
mixedStep(eng, startHeight, st, pkg, rotation) ==
    IF st.currentWeight + pkg.weight > palletConfig.maxWeight THEN st
    ELSE mixedPlace(st, pkg, rotation,
             findBestPositionInLayer(eng, rotation, startHeight, st.occupiedSpaces))

RECURSIVE mixedLoop(_, _, _, _, _, _)
\* the placement loop of createMixedLayer over the suitable entries lo..hi
\* (the entries up to the middle, then the others); st holds layerPackages,
\* occupiedSpaces and currentWeight
mixedLoop(eng, suitablePackages, startHeight, lo, hi, st) ==
    IF lo > hi THEN st
    ELSE IF lo = hi
    THEN mixedStep(eng, startHeight, st,
                   suitablePackages[lo].pkg, suitablePackages[lo].rotation)
    ELSE With(mixedLoop(eng, suitablePackages, startHeight, lo, (lo + hi) \div 2, st),
              LAMBDA half : mixedLoop(eng, suitablePackages, startHeight,
                                      (lo + hi) \div 2 + 1, hi, half))

\* the loop over all the entries of the sorted list, from an empty layer
mixedPlacement(eng, suitablePackages, startHeight) ==
    mixedLoop(eng, suitablePackages, startHeight, 1, Len(suitablePackages),
              [layerPackages |-> << >>, occupiedSpaces |-> << >>,
               currentWeight |-> getCurrentWeight(eng)])

RECURSIVE maxActualHeight(_, _)
maxActualHeight(pkgs, n) ==
    IF n = 0 THEN 0 ELSE Max2(maxActualHeight(pkgs, n - 1), pkgs[n].actualHeight)

\* the plan createMixedLayer returns for the packages it placed
mixedPlanOf(layerPackages) ==
    LayerPlan(layerPackages, maxActualHeight(layerPackages, Len(layerPackages)))

\* remainingPackages is the Map as the sequence of its entries
\* [key, packages] in insertion order
createMixedLayer(eng, remainingPackages, startHeight, availableHeight) ==
    mixedPlanOf(
        mixedPlacement(eng,
            StableSort(suitableOfAll(remainingPackages, Len(remainingPackages),
                                     availableHeight),
                       LAMBDA a, b : priorityGreater(a.priority, b.priority)),
            startHeight).layerPackages)

\* the plans of one type, one for each rotation that fits the height
plansOfRotations(eng, pkgs, rotations, startHeight) ==
    [r \in 1..Len(rotations) |->
        createUniformLayer(eng, pkgs, rotations[r], startHeight)]

\* the plans pushed by the first loop of createOptimalLayer for one type
plansOfType(eng, pkgs, startHeight, availableHeight) ==
    IF Len(pkgs) = 0 THEN << >>
    ELSE SelectSeq(
             plansOfRotations(eng, pkgs,
                 SelectSeq(generateRotations(pkgs[1]),
                           LAMBDA rotation : ~(rotation.height > availableHeight)),
                 startHeight),
             LAMBDA plan : Len(plan.packages) > 0)

RECURSIVE uniformPlans(_, _, _, _, _)
\* the plans pushed by the first loop of createOptimalLayer for the first t
\* types
uniformPlans(eng, remainingPackages, t, startHeight, availableHeight) ==
    IF t = 0 THEN << >>
    ELSE uniformPlans(eng, remainingPackages, t - 1, startHeight, availableHeight) \o
         plansOfType(eng, remainingPackages[t].packages, startHeight, availableHeight)

\* current.efficiency > best.efficiency ? current : best
moreEfficient(best, current) ==
    IF efficiencyGreater(current.efficiency, best.efficiency) THEN current ELSE best

RECURSIVE bestPlan(_, _)
\* bestPlans.reduce(..., { packages: [], height: 0, efficiency: 0 }) over the
\* first n plans
bestPlan(plans, n) ==
    IF n = 0
    THEN [packages |-> << >>, height |-> 0, efficiency |-> [num |-> 0, den |-> 1]]
    ELSE moreEfficient(bestPlan(plans, n - 1), plans[n])

\* if (mixedPlan.packages.length > 0) bestPlans.push(mixedPlan)
withMixedPlan(bestPlans, mixedPlan) ==
    IF Len(mixedPlan.packages) > 0 THEN Append(bestPlans, mixedPlan) ELSE bestPlans

\* the reduce over all the plans collected
reducePlans(bestPlans) == bestPlan(bestPlans, Len(bestPlans))

createOptimalLayer(eng, remainingPackages, startHeight) ==
    LET availableHeight ==
            palletConfig.baseHeight + palletConfig.loadHeight - startHeight
    IN  reducePlans(
            withMixedPlan(
                uniformPlans(eng, remainingPackages, Len(remainingPackages),
                             startHeight, availableHeight),
                createMixedLayer(eng, remainingPackages, startHeight,
                                 availableHeight)))

\* a removal that leaves the remaining packages as they are
removeFirstWithIdKept(pkgs, id) == pkgs

\* remaining.splice(remaining.findIndex(p => p.id === id), 1) when found
removeFirstWithId(pkgs, id) ==
    IF \E i \in 1..Len(pkgs) : pkgs[i].id = id
    THEN LET index == CHOOSE i \in 1..Len(pkgs) :
                         /\ pkgs[i].id = id
                         /\ \A j \in 1..(i - 1) : pkgs[j].id # id
         IN  SubSeq(pkgs, 1, index - 1) \o SubSeq(pkgs, index + 1, Len(pkgs))
    ELSE pkgs

\* the body of the "Remove used packages" loop for one package of the layer
removeOne(remainingPackages, pkg) ==
    [t \in 1..Len(remainingPackages) |->
        IF remainingPackages[t].key = getPackageTypeKey(pkg)
        THEN [remainingPackages[t] EXCEPT !.packages = removeFirstWithId(@, pkg.id)]
        ELSE remainingPackages[t]]

RECURSIVE removeUsed(_, _, _)
\* the "Remove used packages" loop after the first n packages of the layer
removeUsed(remainingPackages, layerPackages, n) ==
    IF n = 0 THEN remainingPackages
    ELSE removeOne(removeUsed(remainingPackages, layerPackages, n - 1),
                   layerPackages[n])

RECURSIVE layerLoop(_, _, _, _)
\* the while loop of layerBasedPacking; returns the layers
layerLoop(eng, remainingPackages, currentHeight, layers) ==
    IF ~(currentHeight < palletConfig.baseHeight + palletConfig.loadHeight)
    THEN layers
    ELSE With(createOptimalLayer(eng, remainingPackages, currentHeight), LAMBDA layer :
             IF Len(layer.packages) = 0 THEN layers
             ELSE layerLoop(eng,
                      removeUsed(remainingPackages, layer.packages,
                                 Len(layer.packages)),
                      currentHeight + layer.height,
                      Append(layers, layer)))

RECURSIVE concatLayers(_, _)
concatLayers(layers, n) ==
    IF n = 0 THEN << >> ELSE concatLayers(layers, n - 1) \o layers[n].packages

\* remainingPackages.set(this.getTypeKey(type), [...type.packages]) for every type
remainingOf(packageTypes) ==
    [t \in 1..Len(packageTypes) |->
        [key |-> getTypeKey(packageTypes[t]),
         packages |-> packageTypes[t].packages]]

\* "Combine all layers": the value returned, the engine left behind and the
\* layers built
combineLayers(eng, layers) ==
    [result |-> concatLayers(layers, Len(layers)), eng |-> eng, layers |-> layers]

layerBasedPacking(eng, packageTypes) ==
    combineLayers(resetWorkspace(eng),
        layerLoop(resetWorkspace(eng), remainingOf(packageTypes),
                  palletConfig.baseHeight, << >>))

----------------------------------------------------------------------------
(* packPackages *)

\* the strategies of packPackages, in the order tried
strategies == << "layer", "hybrid", "uniform", "greedy" >>

\* const result = strategy()
runStrategy(name, eng, packageTypes, expandedPackages) ==
    CASE name = "layer" -> layerBasedPacking(eng, packageTypes)
      [] name = "hybrid" -> hybridPacking(eng, packageTypes)
      [] name = "uniform" -> uniformPackingOptimization(eng, packageTypes)
      [] name = "greedy" -> greedyPacking(eng, expandedPackages)

\* what one strategy returned, its score, the workspace it left and whether
\* an array returned by a strategy has been changed since
Outcome(name, run) ==
    [strategy |-> name, result |-> run.result,
     score |-> evaluatePackingQuality(run.eng, run.result),
     placedPackages |-> run.eng.placedPackages,
     returnedChanged |-> run.eng.returnedChanged]

addOutcome(st, name, run) ==
    [eng |-> run.eng, trials |-> Append(st.trials, Outcome(name, run))]

\* const result = strategy(); const score = this.evaluatePackingQuality(result)
\* for one strategy; st holds the engine and the outcomes so far
tryStrategy(st, name, packageTypes, expandedPackages) ==
    addOutcome(st, name, runStrategy(name, st.eng, packageTypes, expandedPackages))

RECURSIVE tryStrategies(_, _, _, _, _)
\* the calls of the strategies lo..hi (the strategies up to the middle, then
\* the others); returns the engine left behind and the outcome of every
\* strategy
tryStrategies(packageTypes, expandedPackages, lo, hi, st) ==
    IF lo > hi THEN st
    ELSE IF lo = hi THEN tryStrategy(st, strategies[lo], packageTypes, expandedPackages)
    ELSE With(tryStrategies(packageTypes, expandedPackages, lo, (lo + hi) \div 2, st),
              LAMBDA half : tryStrategies(packageTypes, expandedPackages,
                                          (lo + hi) \div 2 + 1, hi, half))

RECURSIVE selectBestLast(_, _, _, _)
\* a selection loop that lets a later result of equal score replace the best
selectBestLast(outcomes, n, bestResult, bestScore) ==
    IF n > Len(outcomes) THEN bestResult
    ELSE IF outcomes[n].score >= bestScore
    THEN selectBestLast(outcomes, n + 1, outcomes[n].result, outcomes[n].score)
    ELSE selectBestLast(outcomes, n + 1, bestResult, bestScore)

RECURSIVE selectBest(_, _, _, _)
\* the selection loop of packPackages over the strategies' results
selectBest(outcomes, n, bestResult, bestScore) ==
    IF n > Len(outcomes) THEN bestResult
    ELSE IF outcomes[n].score > bestScore
    THEN selectBest(outcomes, n + 1, outcomes[n].result, outcomes[n].score)
    ELSE selectBest(outcomes, n + 1, bestResult, bestScore)

\* the value returned, the engine the call leaves behind and, for each
\* strategy in the order tried, its result and score
packResult(tried) ==
    [result |-> selectBest(tried.trials, 1, << >>, -1),
     eng |-> tried.eng,
     trials |-> tried.trials]

\* the part of packPackages after expandPackages
packExpanded(eng, expandedPackages) ==
    packResult(tryStrategies(groupPackagesByType(expandedPackages), expandedPackages,
                             1, Len(strategies), [eng |-> eng, trials |-> << >>]))

packPackages(eng, pkgs) ==
    packExpanded(resetWorkspace(eng), expandPackages(pkgs))

\* usedVolume / totalVolume and totalWeight / maxWeight are kept as the
\* fractions <<numerator, denominator>>
getPackingStatistics(eng) ==
    LET usedVolume == usedVolumeOf(eng.placedPackages)
        totalVolume == palletVolume
        totalWeight == getCurrentWeight(eng)
    IN  [totalVolume |-> totalVolume,
         usedVolume |-> usedVolume,
         volumeUtilization |-> <<usedVolume, totalVolume>>,
         totalWeight |-> totalWeight,
         weightUtilization |-> <<totalWeight, palletConfig.maxWeight>>,
         packageCount |-> Len(eng.placedPackages)]

----------------------------------------------------------------------------
(* calculatePackageStats *)

\* Math.round(((num / den) * 100) * 100) / 100 as a count of hundredths of a
\* percent; defined is FALSE when the division is by zero (NaN or Infinity)
roundedPercent(num, den) ==
    IF den = 0 THEN [defined |-> FALSE, hundredths |-> 0]
    ELSE [defined |-> TRUE, hundredths |-> (20000 * num + den) \div (2 * den)]

\* the percentage 0
zeroPercent == [defined |-> TRUE, hundredths |-> 0]

\* the statistics with the three percentages computed without a test of the
\* divisor
calculatePackageStatsUnguarded(pkgs, placed, config) ==
    [totalPackages |-> SumSeq([k \in 1..Len(pkgs) |-> pkgs[k].duplicateCount], Len(pkgs)),
     placedPackages |-> Len(placed),
     totalVolume |-> SumSeq([k \in 1..Len(pkgs) |->
                        pkgs[k].length * pkgs[k].width * pkgs[k].height
                           * pkgs[k].duplicateCount], Len(pkgs)),
     usedVolume |-> usedVolumeOf(placed),
     totalWeight |-> SumSeq([k \in 1..Len(pkgs) |->
                        pkgs[k].weight * pkgs[k].duplicateCount], Len(pkgs)),
     usedWeight |-> weightOf(placed),
     volumeUtilization |->
         roundedPercent(usedVolumeOf(placed),
                        config.length * config.width * config.loadHeight),
     weightUtilization |-> roundedPercent(weightOf(placed), config.maxWeight),
     placementEfficiency |->
         roundedPercent(Len(placed),
             SumSeq([k \in 1..Len(pkgs) |-> pkgs[k].duplicateCount], Len(pkgs)))]

calculatePackageStats(pkgs, placed, config) ==
    LET totalPackages == SumSeq([k \in 1..Len(pkgs) |-> pkgs[k].duplicateCount], Len(pkgs))
        placedCount == Len(placed)
        totalVolume == SumSeq([k \in 1..Len(pkgs) |->
                          pkgs[k].length * pkgs[k].width * pkgs[k].height
                             * pkgs[k].duplicateCount], Len(pkgs))
        usedVolume == usedVolumeOf(placed)
        palletLoadVolume == config.length * config.width * config.loadHeight
        totalWeight == SumSeq([k \in 1..Len(pkgs) |->
                          pkgs[k].weight * pkgs[k].duplicateCount], Len(pkgs))
        usedWeight == weightOf(placed)
    IN  [totalPackages |-> totalPackages,
         placedPackages |-> placedCount,
         totalVolume |-> totalVolume,
         usedVolume |-> usedVolume,
         totalWeight |-> totalWeight,
         usedWeight |-> usedWeight,
         volumeUtilization |->
             IF palletLoadVolume > 0 THEN roundedPercent(usedVolume, palletLoadVolume)
             ELSE zeroPercent,
         weightUtilization |->
             IF config.maxWeight > 0 THEN roundedPercent(usedWeight, config.maxWeight)
             ELSE zeroPercent,
         placementEfficiency |->
             IF totalPackages > 0 THEN roundedPercent(placedCount, totalPackages)
             ELSE zeroPercent]

----------------------------------------------------------------------------
(* Inputs *)

Config(l, w, base, load, maxWeight) ==
    [length |-> l, width |-> w, baseHeight |-> base, loadHeight |-> load,
     maxWeight |-> maxWeight]

\* pallet configurations handed to the constructor; the last two are invalid
\* (a zero load height, a zero weight limit)
Configs ==
    { Config(3, 2, 1, 2, 10),
      Config(2, 2, 0, 3, 6),
      Config(3, 2, 1, 0, 10),
      Config(3, 2, 1, 2, 0) }

NoConfig == Config(0, 0, 0, 0, 0)

BoxSpec(l, w, h, weight, rotationType) ==
    [length |-> l, width |-> w, height |-> h, weight |-> weight,
     rotationType |-> rotationType]

\* the package types submitted (dimensions in cm, weight in kg)
BoxSpecs ==
    { BoxSpec(2, 1, 1, 2, "horizontal"),
      BoxSpec(1, 1, 2, 5, "all"),
      BoxSpec(3, 2, 1, 6, "vertical"),
      BoxSpec(4, 1, 1, 1, "all") }

\* the ids of the packages of a submitted list, in order
PackageIds == << <<"a">>, <<"b">>, <<"c">>, <<"d">> >>

Package(k, spec, count) ==
    [id |-> PackageIds[k], length |-> spec.length, width |-> spec.width,
     height |-> spec.height, weight |-> spec.weight,
     rotationType |-> spec.rotationType, duplicateCount |-> count]

\* the lists of at most n packages
ListsUpTo(specs, counts, n) ==
    UNION { [1..k -> specs \X counts] : k \in 0..n }

\* the lists of at most two packages
ListsOf(specs, counts) == ListsUpTo(specs, counts, 2)

\* the package lists submitted: packages with distinct ids
PackageLists == ListsOf(BoxSpecs, 0..MaxDuplicate)

\* the package lists submitted to an engine that is used again
ReuseLists ==
    ListsOf({ BoxSpec(2, 1, 1, 2, "horizontal"), BoxSpec(1, 1, 2, 5, "all") },
            {1, MaxDuplicate})

AsPackages(list) == [k \in 1..Len(list) |-> Package(k, list[k][1], list[k][2])]

----------------------------------------------------------------------------
(* The engine and its public calls *)

Init ==
    /\ constructed = FALSE
    /\ palletConfig = NoConfig
    /\ placedPackages = << >>
    /\ availablePositions = << >>
    /\ packages = << >>
    /\ result = << >>
    /\ trials = << >>
    /\ stats = << >>
    /\ packageStats = << >>
    /\ packed = FALSE
    /\ reused = FALSE
    /\ call = << >>
    /\ rotated = << >>
    /\ strategyRun = << >>
    /\ layerRun = << >>
    /\ page = << >>

\* new BinPackingAlgorithm(cfg)
Construct(cfg) ==
    /\ ~constructed
    /\ constructed' = TRUE
    /\ palletConfig' = cfg
    /\ placedPackages' = << >>
    /\ availablePositions' = << Pos(0, cfg.baseHeight, 0) >>
    /\ UNCHANGED <<packages, result, trials, stats, packageStats, packed, reused, call,
                   rotated, strategyRun, layerRun, page>>

\* algorithm.packPackages(pkgs)
PackPackagesCall(pkgs) ==
    /\ constructed
    /\ \E run \in {packPackages(Engine(placedPackages, availablePositions), pkgs)} :
           /\ placedPackages' = run.eng.placedPackages
           /\ availablePositions' = run.eng.availablePositions
           /\ result' = run.result
           /\ trials' = run.trials
    /\ packages' = pkgs
    /\ stats' = << >>
    /\ packageStats' = << >>
    /\ packed' = TRUE
    /\ reused' = packed
    /\ UNCHANGED <<constructed, palletConfig, call, rotated, strategyRun, layerRun, page>>

\* algorithm.getPackingStatistics()
GetPackingStatisticsCall ==
    /\ constructed
    /\ stats' = getPackingStatistics(Engine(placedPackages, availablePositions))
    /\ UNCHANGED <<constructed, palletConfig, placedPackages, availablePositions,
                   packages, result, trials, packageStats, packed, reused, call,
                   rotated, strategyRun, layerRun, page>>

\* calculatePackageStats(packages, placedPackages, palletConfig) as the page
\* calls it: with the submitted packages and the list packPackages returned
\* (the empty list before the first call)
CalculatePackageStatsCall ==
    /\ constructed
    /\ packageStats' = calculatePackageStats(packages, result, palletConfig)
    /\ UNCHANGED <<constructed, palletConfig, placedPackages, availablePositions,
                   packages, result, trials, stats, packed, reused, call, rotated,
                   strategyRun, layerRun, page>>

\* the only packPackages call on an engine, as the page makes it
\* (src/src/pages/Index.tsx constructs an engine for every optimisation)
PackOnce(list) ==
    /\ ~packed
    /\ PackPackagesCall(AsPackages(list))

\* a packPackages call on an engine that may have been used before
PackAgain(list) == PackPackagesCall(AsPackages(list))

Next ==
    \/ \E cfg \in Configs : Construct(cfg)
    \/ \E list \in PackageLists : PackOnce(list)
    \/ GetPackingStatisticsCall

Spec == Init /\ [][Next]_vars

\* the calls of the page (src/src/pages/Index.tsx): an engine is constructed
\* for one packPackages call, and calculatePackageStats is called for what
\* the page holds
NextPage ==
    \/ \E cfg \in Configs : Construct(cfg)
    \/ \E list \in PackageLists : PackOnce(list)
    \/ CalculatePackageStatsCall

SpecPage == Init /\ [][NextPage]_vars

\* any number of packPackages calls on one engine
NextReuse ==
    \/ \E cfg \in Configs : Construct(cfg)
    \/ \E list \in ReuseLists : PackAgain(list)

SpecReuse == Init /\ [][NextReuse]_vars

\* the start of hybridPacking for one package type: the workspace is emptied,
\* seeded with the best uniform placement of the type, and the anchors are
\* rebuilt from the seed
HybridSeed(list) ==
    /\ constructed
    /\ ~packed
    /\ call = << >>
    /\ placedPackages = << >>
    /\ Len(list) = 1
    /\ list[1][2] > 0
    /\ \E seeded \in
           {updateAvailablePositionsFromPlaced(seedWith(optimizeForSingleType(
                resetWorkspace(Engine(placedPackages, availablePositions)),
                groupPackagesByType(expandPackages(AsPackages(list)))[1])))} :
           /\ placedPackages' = seeded.placedPackages
           /\ availablePositions' = seeded.availablePositions
    /\ packages' = AsPackages(list)
    /\ UNCHANGED <<constructed, palletConfig, result, trials, stats, packageStats,
                   packed, reused, call, rotated, strategyRun, layerRun, page>>

\* the instance of a package type handed to placePackageOptimized after n boxes
NextInstance(spec, n) ==
    [id |-> instanceId(PackageIds[2], n), length |-> spec.length,
     width |-> spec.width, height |-> spec.height, weight |-> spec.weight,
     rotationType |-> spec.rotationType, duplicateCount |-> MaxPlaced]

\* one pass of the loop body of hybridPacking and greedyPacking in which the
\* weight test passes:
\* if (this.canAddPackageWeight(pkg.weight)) this.placePackageOptimized(pkg)
PlaceStep(pkg) ==
    /\ constructed
    /\ ~packed
    /\ Len(placedPackages) < MaxPlaced
    /\ canAddPackageWeight(Engine(placedPackages, availablePositions), pkg.weight)
    /\ \E run \in {placePackageOptimized(Engine(placedPackages, availablePositions), pkg)} :
           /\ placedPackages' = run.eng.placedPackages
           /\ availablePositions' = run.eng.availablePositions
           /\ call' = [pkg |-> pkg, placedPackages |-> placedPackages,
                       availablePositions |-> availablePositions, ok |-> run.ok]
    /\ UNCHANGED <<constructed, palletConfig, packages, result, trials, stats,
                   packageStats, packed, reused, rotated, strategyRun, layerRun, page>>

\* the workspace of a hybrid or greedy trial, one placePackageOptimized call
\* at a time
NextPlace ==
    \/ \E cfg \in Configs : Construct(cfg)
    \/ \E list \in PackageLists : HybridSeed(list)
    \/ \E spec \in BoxSpecs : PlaceStep(NextInstance(spec, Len(placedPackages)))

SpecPlace == Init /\ [][NextPlace]_vars

----------------------------------------------------------------------------
(* Properties of the list returned by packPackages *)

\* the two placed boxes are separated on the x, y or z axis, within the tolerance
Separated(a, b) ==
    \/ approxLessOrEqual(a.x + a.actualLength, b.x)
    \/ approxLessOrEqual(b.x + b.actualLength, a.x)
    \/ approxLessOrEqual(a.y + a.actualHeight, b.y)
    \/ approxLessOrEqual(b.y + b.actualHeight, a.y)
    \/ approxLessOrEqual(a.z + a.actualWidth, b.z)
    \/ approxLessOrEqual(b.z + b.actualWidth, a.z)

\* the strategy whose result was returned did place boxes, and it is the one named
Won(name) ==
    /\ packed
    /\ Len(result) > 0
    /\ \E k \in 1..Len(trials) :
          /\ trials[k].strategy = name
          /\ trials[k].result = result
          /\ \A j \in 1..Len(trials) : j # k => trials[j].result # result

\* C1: no two placed boxes of the returned list overlap: every pair is
\* separated on at least one axis, within the tolerance
C1_NoOverlap ==
    packed =>
        \A i, j \in 1..Len(result) : i < j => Separated(result[i], result[j])

\* a strategy other than the layer-based one won with three boxes or more,
\* two of them side by side with touching faces
C1_Witness ==
    /\ packed
    /\ Len(result) >= 3
    /\ trials[1].result # result
    /\ \E i, j \in 1..Len(result) :
          /\ result[j].x = result[i].x + result[i].actualLength
          /\ result[j].y = result[i].y
          /\ result[j].z = result[i].z

InsideLoadVolume(p) ==
    /\ p.x >= 0
    /\ p.z >= 0
    /\ p.y >= palletConfig.baseHeight
    /\ approxLessOrEqual(p.x + p.actualLength, palletConfig.length)
    /\ approxLessOrEqual(p.z + p.actualWidth, palletConfig.width)
    /\ approxLessOrEqual(p.y + p.actualHeight,
                         palletConfig.baseHeight + palletConfig.loadHeight)

\* C2: every placed box of the returned list lies inside the load volume
C2_Containment ==
    packed => \A i \in 1..Len(result) : InsideLoadVolume(result[i])

\* the returned list has a box that reaches the far side and the top of the load
\* volume, above another box
C2_Witness ==
    /\ packed
    /\ \E i \in 1..Len(result) :
          /\ result[i].x + result[i].actualLength = palletConfig.length
          /\ result[i].y + result[i].actualHeight
                = palletConfig.baseHeight + palletConfig.loadHeight
          /\ result[i].y > palletConfig.baseHeight

\* C3: the weights of the returned placed boxes add up to at most maxWeight
C3_WeightCap ==
    packed => weightOf(result) <= palletConfig.maxWeight

expandedCount(pkgs) ==
    SumSeq([k \in 1..Len(pkgs) |-> pkgs[k].duplicateCount], Len(pkgs))

\* C4: the returned list has at most as many placed boxes as there are
\* expanded instances (the sum of duplicateCount)
C4_Cardinality ==
    packed => Len(result) <= expandedCount(packages)

\* the ids `${pkg.id}_${i}` for 0 <= i < duplicateCount
ExpandedIds(pkgs) ==
    UNION {{instanceId(pkgs[k].id, i - 1) : i \in 1..pkgs[k].duplicateCount} :
              k \in 1..Len(pkgs)}

\* C5: no instance id occurs twice in the returned list, and every id in it
\* is the id of an expanded instance of the input
C5_OneBinding ==
    packed =>
        /\ \A i, j \in 1..Len(result) : i < j => result[i].id # result[j].id
        /\ \A i \in 1..Len(result) : result[i].id \in ExpandedIds(packages)

\* the orientations the rotation class of the package allows
Orientations(pkg) ==
    LET L == pkg.length
        W == pkg.width
        H == pkg.height
    IN  CASE pkg.rotationType = "vertical" -> {<<L, W, H>>}
          [] pkg.rotationType = "horizontal" -> {<<L, W, H>>, <<W, L, H>>}
          [] pkg.rotationType = "all" ->
               {<<L, W, H>>, <<L, H, W>>, <<W, L, H>>, <<W, H, L>>, <<H, L, W>>,
                <<H, W, L>>}

\* the placed box is an instance of the submitted package
InstanceOf(p, pkg) ==
    \E i \in 1..pkg.duplicateCount : p.id = instanceId(pkg.id, i - 1)

\* C6: the actual dimensions of every returned placed box are an orientation
\* its rotation class allows for its nominal dimensions, and its nominal
\* dimensions, weight and rotation class are those of the submitted package
C6_RotationFidelity ==
    packed =>
        \A i \in 1..Len(result) :
            \E k \in 1..Len(packages) :
                /\ InstanceOf(result[i], packages[k])
                /\ result[i].length = packages[k].length
                /\ result[i].width = packages[k].width
                /\ result[i].height = packages[k].height
                /\ result[i].weight = packages[k].weight
                /\ result[i].rotationType = packages[k].rotationType
                /\ <<result[i].actualLength, result[i].actualWidth,
                     result[i].actualHeight>> \in Orientations(packages[k])

\* the returned list has a 'horizontal' box turned by the yaw swap and an 'all'
\* box lying on another face
C6_Witness ==
    /\ packed
    /\ \E i \in 1..Len(result) :
          /\ result[i].rotationType = "horizontal"
          /\ result[i].actualLength = result[i].width
          /\ result[i].actualLength # result[i].length
    /\ \E i \in 1..Len(result) :
          /\ result[i].rotationType = "all"
          /\ result[i].actualHeight # result[i].height

\* the engine as the constructor leaves it
FreshEngine ==
    Engine(<< >>, << Pos(0, palletConfig.baseHeight, 0) >>)

\* C7: a packPackages call returns what the same call returns on a freshly
\* constructed engine, whatever calls were made on the engine before
C7_Determinism ==
    packed => result = packPackages(FreshEngine, packages).result

\* a call on an engine that was used before returned boxes
C7_Witness ==
    /\ packed
    /\ reused
    /\ Len(result) >= 2
    /\ Len(placedPackages) >= 1

\* some allowed rotation of the package fits the footprint and the load height
FitsPallet(l, w, h) ==
    /\ approxLessOrEqual(l, palletConfig.length)
    /\ approxLessOrEqual(w, palletConfig.width)
    /\ approxLessOrEqual(h, palletConfig.loadHeight)

NothingFits(pkgs) ==
    \A k \in 1..Len(pkgs) : \A o \in Orientations(pkgs[k]) : ~FitsPallet(o[1], o[2], o[3])

\* C8: packPackages returns a list in which no box is infeasible: every box
\* fits the pallet, no box takes the weight of the boxes before it and its own
\* above maxWeight, and the list is empty when no rotation of any box fits
C8_InfeasibleOmitted ==
    packed =>
        /\ \A i \in 1..Len(result) :
              /\ FitsPallet(result[i].actualLength, result[i].actualWidth,
                            result[i].actualHeight)
              /\ weightOf(SubSeq(result, 1, i)) <= palletConfig.maxWeight
        /\ NothingFits(packages) => result = << >>

ValidConfig(cfg) ==
    /\ cfg.length > 0
    /\ cfg.width > 0
    /\ cfg.loadHeight > 0
    /\ cfg.maxWeight > 0

\* C9: no engine is constructed with an invalid pallet configuration
C9_InvalidConfigRejected ==
    constructed => ValidConfig(palletConfig)

\* C10: the statistics read after packPackages describe the returned list
C10_StatisticsDescribeResult ==
    (packed /\ stats # << >>) =>
        /\ stats.packageCount = Len(result)
        /\ stats.totalWeight = weightOf(result)
        /\ stats.usedVolume = usedVolumeOf(result)

----------------------------------------------------------------------------
(* Properties of the strategy trials of packPackages *)

\* the trials are those of the four strategies, in the order tried
FourTrials ==
    /\ Len(trials) = Len(strategies)
    /\ \A k \in 1..Len(trials) : trials[k].strategy = strategies[k]

\* no trial scores higher than trial k, and every trial before it scores lower
FirstOfHighest(k) ==
    /\ \A j \in 1..Len(trials) : trials[j].score <= trials[k].score
    /\ \A j \in 1..(k - 1) : trials[j].score < trials[k].score

\* C11: packPackages returns the result of the strategy with the highest score
\* among layer, hybrid, uniform and greedy tried in this order; when several
\* strategies share the highest score the result of the first of them is returned
C11_BestScoreWins ==
    packed =>
        /\ FourTrials
        /\ \E k \in 1..Len(trials) : FirstOfHighest(k) /\ result = trials[k].result

\* two strategies share the highest score with different results, and the
\* result of the earlier one was returned
C11_Witness ==
    /\ packed
    /\ Len(result) > 0
    /\ \E j, k \in 1..Len(trials) :
          /\ j < k
          /\ FirstOfHighest(j)
          /\ trials[k].score = trials[j].score
          /\ trials[k].result # trials[j].result
          /\ result = trials[j].result

\* 0.5 * (sum of the actual volumes) / palletVolume + 0.3 * (count / 1000)
\* + 0.2 * (sum of the weights) / maxWeight of a placement, in the unit of
\* evaluatePackingQuality
PlacementScore(placed) ==
    IF Len(placed) = 0 THEN 0
    ELSE 5000 * usedVolumeOf(placed) * palletConfig.maxWeight
           + 3 * Len(placed) * palletVolume * palletConfig.maxWeight
           + 2000 * weightOf(placed) * palletVolume

\* C12: the score that packPackages compares is, for the result of each of the
\* four strategies, the score of that placement alone: its volume, its count
\* and the sum of its own weights; the empty placement scores 0
C12_ScoreOfPlacement ==
    packed => \A k \in 1..Len(trials) : trials[k].score = PlacementScore(trials[k].result)

\* what the strategy returns and leaves behind when it is the first to run on
\* an engine as the constructor leaves it
AloneRun(name) ==
    runStrategy(name, FreshEngine, groupPackagesByType(expandPackages(packages)),
                expandPackages(packages))

\* the placements of the four sort orders of the greedy strategy, each made from
\* the empty placed list and the one anchor (0, baseHeight, 0)
OrderPlacements ==
    { placeEach(FreshEngine, order).placedPackages :
        order \in { greedyOrders(expandPackages(packages))[o] : o \in 1..4 } }

\* C13: the trials are isolated: what a strategy returns and leaves behind is
\* what it returns and leaves when run alone from the empty placed list and the
\* single anchor (0, baseHeight, 0), whichever strategies ran before it; the
\* greedy result is the placement one of its sort orders makes from that same
\* start; and no list returned by a strategy is changed by a later strategy
C13_TrialIsolation ==
    packed =>
        /\ \A k \in 1..Len(trials) :
              LET alone == AloneRun(trials[k].strategy)
              IN  /\ trials[k].result = alone.result
                  /\ trials[k].placedPackages = alone.eng.placedPackages
                  /\ ~trials[k].returnedChanged
        /\ \A k \in 1..Len(trials) :
              trials[k].strategy = "greedy" =>
                  /\ trials[k].result = << >> \/ trials[k].result \in OrderPlacements
                  /\ trials[k].placedPackages \in OrderPlacements

\* the hybrid strategy returned its own placed list with boxes in it, the
\* greedy strategy, running after it, placed boxes too, and the placements of
\* the greedy sort orders are not all the same
C13_Witness ==
    /\ packed
    /\ Len(trials) = Len(strategies)
    /\ Len(trials[2].result) >= 2
    /\ Len(trials[4].result) >= 2
    /\ trials[4].result # trials[2].result
    /\ trials[4].placedPackages # trials[4].result

\* the pallet has room for n boxes of the package in one of its orientations,
\* in rows, columns and layers
RoomFor(pkg, n) ==
    \E o \in Orientations(pkg) :
        /\ o[1] > 0 /\ o[2] > 0 /\ o[3] > 0
        /\ (palletConfig.length \div o[1]) * (palletConfig.width \div o[2])
              * (palletConfig.loadHeight \div o[3]) >= n

\* C15: for a single box type of weight w with repeat n where n * w > maxWeight,
\* packPackages places at most floor(maxWeight / w) instances, and exactly that
\* many when the pallet has room for them
C15_WeightLimitedCount ==
    (/\ packed
     /\ Len(packages) = 1
     /\ palletConfig.maxWeight > 0
     /\ packages[1].duplicateCount * packages[1].weight > palletConfig.maxWeight) =>
        /\ Len(result) <= palletConfig.maxWeight \div packages[1].weight
        /\ RoomFor(packages[1], palletConfig.maxWeight \div packages[1].weight) =>
              /\ Len(result) = palletConfig.maxWeight \div packages[1].weight
              /\ weightOf(result)
                    = (palletConfig.maxWeight \div packages[1].weight) * packages[1].weight

\* C16: when no box is submitted (an empty list, or only packages of
\* duplicateCount 0) packPackages returns the empty list, each of the four
\* strategies having placed nothing and scored 0; and calculatePackageStats
\* on an empty placement gives 0 for placementEfficiency, volumeUtilization and
\* weightUtilization, without a division by a zero total
C16_NothingSubmitted ==
    /\ (packed /\ expandedCount(packages) = 0) =>
          /\ result = << >>
          /\ FourTrials
          /\ \A k \in 1..Len(trials) : trials[k].result = << >> /\ trials[k].score = 0
    /\ (packageStats # << >> /\ result = << >>) =>
          /\ packageStats.placementEfficiency = zeroPercent
          /\ packageStats.volumeUtilization = zeroPercent
          /\ packageStats.weightUtilization = zeroPercent

\* packPackages was called with packages of duplicateCount 0 only, and
\* calculatePackageStats was then called for them and the empty list returned
C16_Witness ==
    /\ packed
    /\ Len(packages) > 0
    /\ expandedCount(packages) = 0
    /\ result = << >>
    /\ packageStats # << >>
    /\ packageStats.totalPackages = 0

\* the boxes of the list were added under the weight guard: no box takes the
\* weight of the boxes before it and its own above maxWeight
AddedUnderGuard(placed) ==
    \A i \in 1..Len(placed) : weightOf(SubSeq(placed, 1, i)) <= palletConfig.maxWeight

\* C17: in the list each of the four strategies produces, every box was added
\* only when the weight of all boxes placed before it in that trial (those of
\* earlier layers included) plus its own weight was at most maxWeight
C17_GuardInEveryRunner ==
    packed => \A k \in 1..Len(trials) : AddedUnderGuard(trials[k].result)

----------------------------------------------------------------------------
(* Properties of the feasibility check and of placePackageOptimized *)

\* a <= b, equality allowed within the tolerance
AtMost(a, b) == (a - b) * ToleranceInv <= 1

\* the rotations of the package types
SomeRotations ==
    UNION { { generateRotations(NextInstance(spec, 0))[r] :
                r \in 1..Len(generateRotations(NextInstance(spec, 0))) } :
            spec \in BoxSpecs }

\* the anchors of the workspace and the grid points of the load volume
SomePositions ==
    { availablePositions[a] : a \in 1..Len(availablePositions) }
      \cup { Pos(x, y, z) :
               x \in 0..palletConfig.length,
               y \in palletConfig.baseHeight
                       ..(palletConfig.baseHeight + palletConfig.loadHeight),
               z \in 0..palletConfig.width }

\* the box of a rotation put at a position, and the box of a placed package
BoxAt(rotation, position) ==
    Box(position.x, position.y, position.z,
        rotation.length, rotation.width, rotation.height)

BoxOf(p) == Box(p.x, p.y, p.z, p.actualLength, p.actualWidth, p.actualHeight)

\* the box fits the bounds of the load volume
FitsBounds(b) ==
    /\ AtMost(b.x + b.length, palletConfig.length)
    /\ AtMost(b.z + b.width, palletConfig.width)
    /\ AtMost(b.y + b.height, palletConfig.baseHeight + palletConfig.loadHeight)

\* the far face of one box is at most the near face of the other on some axis
SeparatedOnAnAxis(a, b) ==
    \/ AtMost(a.x + a.length, b.x) \/ AtMost(b.x + b.length, a.x)
    \/ AtMost(a.y + a.height, b.y) \/ AtMost(b.y + b.height, a.y)
    \/ AtMost(a.z + a.width, b.z) \/ AtMost(b.z + b.width, a.z)

\* the boxes touch with a pair of faces: the far face of one is the near face
\* of the other
TouchFaces(a, b) ==
    \/ a.x + a.length = b.x \/ b.x + b.length = a.x
    \/ a.y + a.height = b.y \/ b.y + b.height = a.y
    \/ a.z + a.width = b.z \/ b.z + b.width = a.z

\* C18: canPlaceAtPosition(rotation, anchor) is true exactly when the box fits
\* the bounds of the load volume and is separated on at least one axis from
\* every placed box; checkCollision gives the same answer with its arguments
\* exchanged and reports no collision for boxes that touch with their faces
C18_Feasibility ==
    constructed =>
        \A rotation \in SomeRotations : \A position \in SomePositions :
            /\ canPlaceAtPosition(Engine(placedPackages, availablePositions),
                                  rotation, position)
                 <=> /\ FitsBounds(BoxAt(rotation, position))
                     /\ \A i \in 1..Len(placedPackages) :
                           SeparatedOnAnAxis(BoxAt(rotation, position),
                                             BoxOf(placedPackages[i]))
            /\ \A i \in 1..Len(placedPackages) :
                  /\ checkCollision(BoxAt(rotation, position), BoxOf(placedPackages[i]))
                       = checkCollision(BoxOf(placedPackages[i]), BoxAt(rotation, position))
                  /\ TouchFaces(BoxAt(rotation, position), BoxOf(placedPackages[i]))
                       => ~checkCollision(BoxAt(rotation, position),
                                          BoxOf(placedPackages[i]))

\* three boxes are placed and, of the rotations at the anchors, one is feasible
\* with a face on a placed box, one is out of the bounds, and one collides
\* with a placed box
C18_Witness ==
    /\ constructed
    /\ Len(placedPackages) = 3
    /\ \E rotation \in SomeRotations : \E a \in 1..Len(availablePositions) :
          /\ canPlaceAtPosition(Engine(placedPackages, availablePositions),
                                rotation, availablePositions[a])
          /\ \E i \in 1..Len(placedPackages) :
                TouchFaces(BoxAt(rotation, availablePositions[a]), BoxOf(placedPackages[i]))
    /\ \E rotation \in SomeRotations : \E a \in 1..Len(availablePositions) :
          ~FitsBounds(BoxAt(rotation, availablePositions[a]))
    /\ \E rotation \in SomeRotations : \E a \in 1..Len(availablePositions) :
          /\ FitsBounds(BoxAt(rotation, availablePositions[a]))
          /\ \E i \in 1..Len(placedPackages) :
                checkCollision(BoxAt(rotation, availablePositions[a]),
                               BoxOf(placedPackages[i]))

\* the workspace the recorded placePackageOptimized call found, the rotations
\* of its package, and the (rotation, anchor) pairs that pass the feasibility
\* check, as indices into the rotations and the anchors
CallEngine == Engine(call.placedPackages, call.availablePositions)

CallRotations == generateRotations(call.pkg)

FeasiblePairs ==
    { p \in (1..Len(CallRotations)) \X (1..Len(call.availablePositions)) :
        canPlaceAtPosition(CallEngine, CallRotations[p[1]],
                           call.availablePositions[p[2]]) }

PairScore(p) ==
    evaluatePositionScore(call.availablePositions[p[2]], CallRotations[p[1]])

\* pair p comes before pair q when the rotations are enumerated first and the
\* anchors within a rotation
EnumeratedBefore(p, q) == p[1] < q[1] \/ (p[1] = q[1] /\ p[2] < q[2])

\* p is the first of the feasible pairs of minimal score
FirstOfMinimal(p) ==
    /\ p \in FeasiblePairs
    /\ \A q \in FeasiblePairs :
          /\ PairScore(p) <= PairScore(q)
          /\ (PairScore(q) = PairScore(p) /\ q # p) => EnumeratedBefore(p, q)

\* the box the call placed
PlacedByCall == placedPackages[Len(placedPackages)]

\* C19: placePackageOptimized places the box at the feasible pair of a rotation
\* of its package and an anchor whose placement score is minimal among the
\* feasible pairs, the first of them in the enumeration by rotation and then
\* anchor when several have that score; it fails only when no pair is feasible
C19_MinimalScorePair ==
    call # << >> =>
        /\ call.ok <=> FeasiblePairs # {}
        /\ call.ok =>
              \E p \in FeasiblePairs :
                  /\ FirstOfMinimal(p)
                  /\ PlacedByCall = createPlacedPackage(call.pkg,
                                        call.availablePositions[p[2]], CallRotations[p[1]])

\* a call succeeded where two feasible pairs that place the box differently
\* share the minimal score, and a feasible pair of higher score is enumerated
\* before them
C19_Witness ==
    /\ call # << >>
    /\ call.ok
    /\ \E p, q \in FeasiblePairs :
          /\ FirstOfMinimal(p)
          /\ q # p
          /\ PairScore(q) = PairScore(p)
          /\ createPlacedPackage(call.pkg, call.availablePositions[q[2]], CallRotations[q[1]])
               # createPlacedPackage(call.pkg, call.availablePositions[p[2]], CallRotations[p[1]])
    /\ \E p, q \in FeasiblePairs : EnumeratedBefore(q, p) /\ FirstOfMinimal(p)

\* C20: a successful placePackageOptimized appends exactly one placed box to
\* the placed list, leaves the boxes placed before unchanged, and removes the
\* anchor it used from the anchors; a failed one leaves the placed list and
\* the anchors unchanged
C20_PlacementFrame ==
    call # << >> =>
        /\ call.ok =>
              /\ Len(placedPackages) = Len(call.placedPackages) + 1
              /\ SubSeq(placedPackages, 1, Len(call.placedPackages)) = call.placedPackages
              /\ \E a \in 1..Len(call.availablePositions) :
                    call.availablePositions[a]
                       = Pos(PlacedByCall.x, PlacedByCall.y, PlacedByCall.z)
              /\ \A a \in 1..Len(availablePositions) :
                    availablePositions[a]
                       # Pos(PlacedByCall.x, PlacedByCall.y, PlacedByCall.z)
        /\ ~call.ok =>
              /\ placedPackages = call.placedPackages
              /\ availablePositions = call.availablePositions

\* a call succeeded on a workspace with two boxes and several anchors, and
\* anchors remain after it
C20_Witness ==
    /\ call # << >>
    /\ call.ok
    /\ Len(call.placedPackages) = 2
    /\ Len(call.availablePositions) >= 2
    /\ Len(availablePositions) >= 1

----------------------------------------------------------------------------
(* Properties of the anchors *)

\* the members of a sequence
Members(s) == { s[i] : i \in 1..Len(s) }

\* the seven points P + (a * length, b * height, c * width) of the box placed
\* by the recorded call, (a, b, c) in {0, 1}^3 without (0, 0, 0)
CornerPoints ==
    { Pos(PlacedByCall.x + a * PlacedByCall.actualLength,
          PlacedByCall.y + b * PlacedByCall.actualHeight,
          PlacedByCall.z + c * PlacedByCall.actualWidth) :
        a \in {0, 1}, b \in {0, 1}, c \in {0, 1} }
      \ { Pos(PlacedByCall.x, PlacedByCall.y, PlacedByCall.z) }

\* the point lies within the bounds of the pallet, within the tolerance above
WithinBounds(pos) ==
    /\ pos.x >= 0
    /\ pos.z >= 0
    /\ pos.y >= palletConfig.baseHeight
    /\ AtMost(pos.x, palletConfig.length)
    /\ AtMost(pos.y, palletConfig.baseHeight + palletConfig.loadHeight)
    /\ AtMost(pos.z, palletConfig.width)

\* the two points are equal within the tolerance
EqualWithinTolerance(p, q) ==
    /\ AtMost(p.x, q.x) /\ AtMost(q.x, p.x)
    /\ AtMost(p.y, q.y) /\ AtMost(q.y, p.y)
    /\ AtMost(p.z, q.z) /\ AtMost(q.z, p.z)

\* C21: after placePackageOptimized has placed a box at anchor P, the anchors
\* are the anchors before without P, and those of the seven corner points
\* of the box that lie within the pallet bounds and were not present; no two
\* anchors are ever equal within the tolerance and none is outside the bounds
C21_AnchorUpdate ==
    /\ (call # << >> /\ call.ok) =>
          Members(availablePositions)
            = (Members(call.availablePositions)
                 \ { Pos(PlacedByCall.x, PlacedByCall.y, PlacedByCall.z) })
              \cup { c \in CornerPoints :
                       /\ WithinBounds(c)
                       /\ \A q \in Members(call.availablePositions) :
                             ~EqualWithinTolerance(c, q) }
    /\ \A i, j \in 1..Len(availablePositions) :
          i # j => ~EqualWithinTolerance(availablePositions[i], availablePositions[j])
    /\ \A i \in 1..Len(availablePositions) : WithinBounds(availablePositions[i])

\* a box was placed beside earlier boxes: some of its corner points were
\* anchors already and were not added again, and some became anchors
C21_Witness ==
    /\ call # << >>
    /\ call.ok
    /\ Len(call.placedPackages) >= 1
    /\ \E c \in CornerPoints : c \in Members(call.availablePositions)
    /\ \E c \in CornerPoints :
          c \notin Members(call.availablePositions) /\ c \in Members(availablePositions)

\* anchor p comes before anchor q in the order by height, then z, then x
LowerBackLeft(p, q) ==
    \/ p.y < q.y
    \/ p.y = q.y /\ p.z < q.z
    \/ p.y = q.y /\ p.z = q.z /\ p.x < q.x

\* C22: at every point of a greedy or hybrid trial the anchors are in ascending
\* order by (y, z, x): lowest height first, then smallest z, then smallest x,
\* also after the used anchor has been removed
C22_AnchorOrder ==
    constructed =>
        \A i, j \in 1..Len(availablePositions) :
            i < j => LowerBackLeft(availablePositions[i], availablePositions[j])

\* a box was placed at an anchor that had anchors before and after it, and the
\* anchors left differ in height, in z and in x
C22_Witness ==
    /\ call # << >>
    /\ call.ok
    /\ \E a \in 2..(Len(call.availablePositions) - 1) :
          call.availablePositions[a] = Pos(PlacedByCall.x, PlacedByCall.y, PlacedByCall.z)
    /\ \E i, j \in 1..Len(availablePositions) :
          availablePositions[i].y # availablePositions[j].y
    /\ \E i, j \in 1..Len(availablePositions) :
          /\ availablePositions[i].y = availablePositions[j].y
          /\ availablePositions[i].z < availablePositions[j].z
          /\ availablePositions[i].x > availablePositions[j].x

----------------------------------------------------------------------------
(* generateRotations on its own *)

RotationTypes == {"horizontal", "vertical", "all"}

\* this.generateRotations(pkg) for a package of any dimensions
GenerateRotationsCall(l, w, h, rt) ==
    /\ \E pkg \in {Package(1, BoxSpec(l, w, h, 1, rt), 1)} :
           rotated' = [pkg |-> pkg, rotations |-> generateRotations(pkg)]
    /\ UNCHANGED <<constructed, palletConfig, placedPackages, availablePositions,
                   packages, result, trials, stats, packageStats, packed, reused,
                   call, strategyRun, layerRun, page>>

NextRotate ==
    \E l \in 1..MaxDim, w \in 1..MaxDim, h \in 1..MaxDim, rt \in RotationTypes :
        GenerateRotationsCall(l, w, h, rt)

SpecRotate == Init /\ [][NextRotate]_vars

\* the dimension triples of a list of rotations
Triples(rotations) ==
    { <<rotations[i].length, rotations[i].width, rotations[i].height>> :
          i \in 1..Len(rotations) }

\* every ordering of three dimensions
Orderings(d) == { <<d[f[1]], d[f[2]], d[f[3]]>> : f \in Permutations(1..3) }

\* C23: generateRotations returns exactly the orientations of the package's
\* rotation class: 'vertical' the single orientation (L, W, H); 'horizontal'
\* (L, W, H) and (W, L, H), the height unchanged; 'all' the six orientations
\* (L,W,H), (W,L,H), (L,H,W), (H,W,L), (W,H,L), (H,L,W) with the angles
\* (0,0,0), (0,90,0), (90,0,0), (0,0,90), (90,90,0), (90,0,90), which are all
\* the orderings of the three dimensions; every orientation has the volume
\* of the package.
C23_RotationClasses ==
    rotated # << >> =>
        LET pkg == rotated.pkg
            r == rotated.rotations
            L == pkg.length
            W == pkg.width
            H == pkg.height
        IN  /\ pkg.rotationType = "vertical" =>
                   r = << Rot(L, W, H, <<0, 0, 0>>) >>
            /\ pkg.rotationType = "horizontal" =>
                   /\ Len(r) = 2
                   /\ <<r[1].length, r[1].width>> = <<L, W>>
                   /\ <<r[2].length, r[2].width>> = <<W, L>>
                   /\ \A i \in 1..2 : r[i].height = H
            /\ pkg.rotationType = "all" =>
                   /\ Len(r) = 6
                   /\ [i \in 1..6 |-> <<r[i].length, r[i].width, r[i].height>>]
                          = << <<L, W, H>>, <<W, L, H>>, <<L, H, W>>,
                               <<H, W, L>>, <<W, H, L>>, <<H, L, W>> >>
                   /\ [i \in 1..6 |-> r[i].rotationAngles]
                          = << <<0, 0, 0>>, <<0, 90, 0>>, <<90, 0, 0>>,
                               <<0, 0, 90>>, <<90, 90, 0>>, <<90, 0, 90>> >>
                   /\ Triples(r) = Orderings(<<L, W, H>>)
            /\ \A i \in 1..Len(r) : r[i].length * r[i].width * r[i].height = L * W * H

\* an 'all' package of three different dimensions was rotated: six different
\* orientations came back
C23_Witness ==
    /\ rotated # << >>
    /\ rotated.pkg.rotationType = "all"
    /\ Cardinality({rotated.pkg.length, rotated.pkg.width, rotated.pkg.height}) = 3
    /\ Cardinality(Triples(rotated.rotations)) = 6

----------------------------------------------------------------------------
(* The strategies on their own *)

\* one strategy of packPackages run on its own, as its first strategy is: on
\* the workspace packPackages has reset, with the types and the expanded list
\* of the packages; one run for an engine
StrategyCall(name, list) ==
    /\ constructed
    /\ ~packed
    /\ strategyRun = << >>
    /\ \E pkgs \in {AsPackages(list)} :
       \E run \in {runStrategy(name,
                       resetWorkspace(Engine(placedPackages, availablePositions)),
                       groupPackagesByType(expandPackages(pkgs)),
                       expandPackages(pkgs))} :
           /\ placedPackages' = run.eng.placedPackages
           /\ availablePositions' = run.eng.availablePositions
           /\ strategyRun' = [strategy |-> name, packages |-> pkgs,
                              result |-> run.result]
    /\ UNCHANGED <<constructed, palletConfig, packages, result, trials, stats,
                   packageStats, packed, reused, call, rotated, layerRun, page>>

\* the package types handed to greedyPacking on its own: two boxes that fill
\* the load volume and one of half its height
GreedySpecs ==
    { BoxSpec(3, 2, 2, 3, "horizontal"),
      BoxSpec(3, 2, 2, 5, "horizontal"),
      BoxSpec(3, 2, 1, 5, "vertical") }

GreedyLists == ListsUpTo(GreedySpecs, {1, MaxDuplicate}, 3)

NextGreedy ==
    \/ \E cfg \in Configs : Construct(cfg)
    \/ \E list \in GreedyLists : StrategyCall("greedy", list)

SpecGreedy == Init /\ [][NextGreedy]_vars

\* the expanded list sorted by each of the five keys: descending volume,
\* height, weight, base area and weight density
FiveOrders(pkgs) ==
    << StableSort(pkgs, LAMBDA a, b : volumeOf(b) < volumeOf(a)),
       StableSort(pkgs, LAMBDA a, b : b.height < a.height),
       StableSort(pkgs, LAMBDA a, b : b.weight < a.weight),
       StableSort(pkgs, LAMBDA a, b : b.length * b.width < a.length * a.width),
       StableSort(pkgs, LAMBDA a, b : b.weight * volumeOf(a) < a.weight * volumeOf(b)) >>

\* the placement of a greedy trial over a sorted list: every box in order on
\* a fresh workspace, the boxes that would breach the weight cap skipped
TrialPlacement(sortedPackages) == placeEach(FreshEngine, sortedPackages).placedPackages

\* C24: the sorted-greedy strategy runs one greedy trial for each of the five
\* sort keys (descending volume, height, weight, base area, weight density),
\* each over the full expanded list on a fresh workspace, and returns the
\* placement of the trial with the highest score, the earliest on ties; so
\* its result scores at least as high as the trial of each of the five keys
C24_FiveKeyTrials ==
    (strategyRun # << >> /\ strategyRun.strategy = "greedy") =>
        LET orders == FiveOrders(expandPackages(strategyRun.packages))
        IN  /\ \A o \in 1..5 :
                  PlacementScore(strategyRun.result)
                      >= PlacementScore(TrialPlacement(orders[o]))
            /\ \/ strategyRun.result = << >>
               \/ \E o \in 1..5 :
                      /\ strategyRun.result = TrialPlacement(orders[o])
                      /\ \A e \in 1..(o - 1) :
                             PlacementScore(TrialPlacement(orders[e]))
                                 < PlacementScore(strategyRun.result)

----------------------------------------------------------------------------
(* layerBasedPacking, one loop iteration at a time *)

\* the loop body of layerBasedPacking that raises the height of a layer by
\* nothing
layerIterationFlat(eng, st) ==
    IF ~(st.currentHeight < palletConfig.baseHeight + palletConfig.loadHeight)
    THEN [st EXCEPT !.pc = "combine"]
    ELSE With(createOptimalLayer(eng, st.remainingPackages, st.currentHeight),
              LAMBDA layer :
                 IF Len(layer.packages) = 0 THEN [st EXCEPT !.pc = "combine"]
                 ELSE [st EXCEPT
                          !.layers = Append(@, layer),
                          !.starts = Append(@, st.currentHeight),
                          !.remainingPackages =
                              removeUsed(@, layer.packages, Len(layer.packages))])

\* the test of the while loop of layerBasedPacking and one pass of its body;
\* st holds the locals remainingPackages, currentHeight and layers, the
\* height at which each layer was created, and the position in the method
layerIteration(eng, st) ==
    IF ~(st.currentHeight < palletConfig.baseHeight + palletConfig.loadHeight)
    THEN [st EXCEPT !.pc = "combine"]
    ELSE With(createOptimalLayer(eng, st.remainingPackages, st.currentHeight),
              LAMBDA layer :
                 IF Len(layer.packages) = 0 THEN [st EXCEPT !.pc = "combine"]
                 ELSE [st EXCEPT
                          !.layers = Append(@, layer),
                          !.starts = Append(@, st.currentHeight),
                          !.currentHeight = @ + layer.height,
                          !.remainingPackages =
                              removeUsed(@, layer.packages, Len(layer.packages))])

\* layerBasedPacking(packageTypes) up to its loop
LayerStart(list) ==
    /\ constructed
    /\ ~packed
    /\ layerRun = << >>
    /\ \E pkgs \in {AsPackages(list)} :
       \E eng \in {resetWorkspace(Engine(placedPackages, availablePositions))} :
           /\ placedPackages' = eng.placedPackages
           /\ availablePositions' = eng.availablePositions
           /\ layerRun' = [packages |-> pkgs,
                           remainingPackages |->
                               remainingOf(groupPackagesByType(expandPackages(pkgs))),
                           currentHeight |-> palletConfig.baseHeight,
                           layers |-> << >>,
                           starts |-> << >>,
                           result |-> << >>,
                           pc |-> "loop"]
    /\ UNCHANGED <<constructed, palletConfig, packages, result, trials, stats,
                   packageStats, packed, reused, call, rotated, strategyRun, page>>

\* the loop test of layerBasedPacking and one pass of the loop body
LayerStep ==
    /\ layerRun # << >>
    /\ layerRun.pc = "loop"
    /\ layerRun' = layerIteration(Engine(placedPackages, availablePositions), layerRun)
    /\ UNCHANGED <<constructed, palletConfig, placedPackages, availablePositions,
                   packages, result, trials, stats, packageStats, packed, reused,
                   call, rotated, strategyRun, page>>

\* "Combine all layers" and the return of layerBasedPacking
LayerReturn ==
    /\ layerRun # << >>
    /\ layerRun.pc = "combine"
    /\ layerRun' = [layerRun EXCEPT
                       !.result = concatLayers(layerRun.layers, Len(layerRun.layers)),
                       !.pc = "done"]
    /\ UNCHANGED <<constructed, palletConfig, placedPackages, availablePositions,
                   packages, result, trials, stats, packageStats, packed, reused,
                   call, rotated, strategyRun, page>>

\* the pallet configurations of the layer runs: those above and one with a
\* load height that takes more than two layers
LayerConfigs == Configs \cup { Config(3, 2, 1, 4, 20) }

NextLayer ==
    \/ \E cfg \in LayerConfigs : Construct(cfg)
    \/ \E list \in PackageLists : LayerStart(list)
    \/ LayerStep
    \/ LayerReturn

SpecLayer == Init /\ [][NextLayer]_vars

\* LayerStep can be taken: it then changes layerRun
InLoop == layerRun # << >> /\ layerRun.pc = "loop"

\* LayerReturn can be taken: it then changes layerRun
InCombine == layerRun # << >> /\ layerRun.pc = "combine"

\* the loop and the return are steps of one synchronous method call: each is
\* taken when it can be.  This is WF_vars(LayerStep) /\ WF_vars(LayerReturn)
\* with WF_vars(A) written out as []<>~ENABLED <<A>>_vars \/ []<><<A>>_vars
\* and ENABLED <<A>>_vars written as the guard of A
SpecLayerFair ==
    /\ SpecLayer
    /\ ([]<>~InLoop \/ []<><<LayerStep>>_vars)
    /\ ([]<>~InCombine \/ []<><<LayerReturn>>_vars)

\* the top of the load volume
LoadTop == palletConfig.baseHeight + palletConfig.loadHeight

\* the height of the tallest box of a layer
TallestIn(layer) ==
    CHOOSE h \in {layer.packages[i].actualHeight : i \in 1..Len(layer.packages)} :
        \A i \in 1..Len(layer.packages) : layer.packages[i].actualHeight <= h

\* the height at which the layer after the last one built would start
NextStart ==
    IF Len(layerRun.layers) = 0 THEN palletConfig.baseHeight
    ELSE layerRun.starts[Len(layerRun.layers)]
            + layerRun.layers[Len(layerRun.layers)].height

\* C25: the layers of the layer-based strategy are disjoint stacked height
\* bands: the first layer starts at baseHeight, every box of a layer has its
\* bottom at the start height of the layer and its top at most at start +
\* layer height, the layer height is the height of the tallest box placed in
\* the layer, the next layer starts exactly at start + layer height, and no
\* layer reaches above baseHeight + loadHeight; the list returned is the
\* boxes of the layers in order
C25_LayerBands ==
    layerRun # << >> =>
        LET layers == layerRun.layers
            starts == layerRun.starts
        IN  /\ Len(starts) = Len(layers)
            /\ Len(layers) > 0 => starts[1] = palletConfig.baseHeight
            /\ \A k \in 1..Len(layers) :
                  /\ Len(layers[k].packages) > 0
                  /\ \A i \in 1..Len(layers[k].packages) :
                        /\ layers[k].packages[i].y = starts[k]
                        /\ layers[k].packages[i].y + layers[k].packages[i].actualHeight
                               <= starts[k] + layers[k].height
                  /\ layers[k].height = TallestIn(layers[k])
                  /\ starts[k] + layers[k].height <= LoadTop
                  /\ k < Len(layers) => starts[k + 1] = starts[k] + layers[k].height
                  /\ \A j \in 1..(k - 1) : starts[j] + layers[j].height <= starts[k]
            /\ layerRun.currentHeight = NextStart
            /\ layerRun.pc = "done" =>
                  /\ layerRun.result = concatLayers(layers, Len(layers))
                  /\ layerRun.result =
                         layerBasedPacking(FreshEngine,
                             groupPackagesByType(expandPackages(layerRun.packages))).result

\* the strategy returned two layers, the first one with boxes of different
\* heights in it
C25_Witness ==
    /\ layerRun # << >>
    /\ layerRun.pc = "done"
    /\ Len(layerRun.layers) >= 2
    /\ \E i, j \in 1..Len(layerRun.layers[1].packages) :
          layerRun.layers[1].packages[i].actualHeight
              < layerRun.layers[1].packages[j].actualHeight

\* the number of boxes left in remainingPackages
RemainingCount(st) ==
    SumSeq([t \in 1..Len(st.remainingPackages) |->
               Len(st.remainingPackages[t].packages)],
           Len(st.remainingPackages))

\* an iteration that stops: the load height is exhausted or no box fits in a
\* new layer; the locals are left as they are
IterationStops ==
    /\ layerRun'.pc = "combine"
    /\ layerRun'.layers = layerRun.layers
    /\ \/ layerRun.currentHeight >= LoadTop
       \/ Len(createOptimalLayer(Engine(placedPackages, availablePositions),
                                 layerRun.remainingPackages,
                                 layerRun.currentHeight).packages) = 0

\* an iteration that places a layer with boxes in it, takes at least one box
\* from the remaining boxes and raises the height by the height of the layer
IterationPlacesLayer ==
    /\ layerRun'.pc = "loop"
    /\ Len(layerRun'.layers) = Len(layerRun.layers) + 1
    /\ Len(layerRun'.layers[Len(layerRun'.layers)].packages) > 0
    /\ RemainingCount(layerRun') < RemainingCount(layerRun)
    /\ layerRun'.currentHeight
           = layerRun.currentHeight + layerRun'.layers[Len(layerRun'.layers)].height
    /\ layerRun'.currentHeight > layerRun.currentHeight

\* C26: the layer-based strategy terminates for every finite box list: each
\* iteration of its loop either stops (no box fits in a new layer, or the load
\* height is exhausted) or places a non-empty layer, which removes at least
\* one box from the remaining boxes and raises the current height by the
\* height of the layer; every run that is started returns
C26_LayerTermination ==
    /\ [][LayerStep => (IterationStops \/ IterationPlacesLayer)]_vars
    /\ (layerRun # << >>) ~> (layerRun # << >> /\ layerRun.pc = "done")

\* a run returned after three layers, with boxes left over
C26_Witness ==
    /\ layerRun # << >>
    /\ layerRun.pc = "done"
    /\ Len(layerRun.layers) >= 3
    /\ RemainingCount(layerRun) > 0

----------------------------------------------------------------------------
(* hybridPacking on its own *)

\* the pallet configurations of the hybrid runs: those above and a footprint
\* of 3 x 3 with room for one layer of boxes
HybridConfigs == Configs \cup { Config(3, 3, 0, 1, 10) }

\* the package lists of the hybrid runs
HybridLists ==
    ListsOf({ BoxSpec(2, 1, 1, 2, "horizontal"), BoxSpec(1, 1, 2, 5, "all"),
              BoxSpec(3, 2, 1, 6, "vertical") },
            {1, MaxDuplicate, 2 * MaxDuplicate})

NextHybrid ==
    \/ \E cfg \in HybridConfigs : Construct(cfg)
    \/ \E list \in HybridLists : StrategyCall("hybrid", list)

SpecHybrid == Init /\ [][NextHybrid]_vars

\* the number of boxes of a type in a list of boxes
CountOfKey(pkgs, key) == Cardinality({i \in 1..Len(pkgs) : packageKey(pkgs[i]) = key})

\* the most numerous type of a list of boxes, the first such type in the order
\* of the list when counts tie
MostNumerous(pkgs) ==
    packageKey(pkgs[CHOOSE i \in 1..Len(pkgs) :
        /\ \A j \in 1..Len(pkgs) :
              CountOfKey(pkgs, packageKey(pkgs[j])) <= CountOfKey(pkgs, packageKey(pkgs[i]))
        /\ \A j \in 1..(i - 1) :
              CountOfKey(pkgs, packageKey(pkgs[j])) < CountOfKey(pkgs, packageKey(pkgs[i]))])

\* the uniform tiling of the boxes of one type of a list
TilingOf(pkgs, key) ==
    optimizeForSingleType(FreshEngine,
        CHOOSE type \in {groupInto(pkgs, Len(pkgs))[t] : t \in 1..Len(groupInto(pkgs, Len(pkgs)))} :
            getTypeKey(type) = key).result

\* C27: the hybrid strategy seeds its workspace with the uniform tiling of the
\* most numerous box type (the first such type in input order when counts
\* tie), keeps the seed placements unchanged as the prefix of its result, and
\* in the fill phase places only boxes of the other types, each at a position
\* that is feasible against the seed and all earlier fill placements
C27_HybridSeedAndFill ==
    (/\ strategyRun # << >>
     /\ strategyRun.strategy = "hybrid"
     /\ Len(expandPackages(strategyRun.packages)) > 0) =>
        LET pkgs == expandPackages(strategyRun.packages)
            primary == MostNumerous(pkgs)
            seed == TilingOf(pkgs, primary)
            r == strategyRun.result
        IN  /\ Len(seed) <= Len(r)
            /\ SubSeq(r, 1, Len(seed)) = seed
            /\ \A i \in (Len(seed) + 1)..Len(r) :
                  /\ packageKey(r[i]) # primary
                  /\ FitsBounds(BoxOf(r[i]))
                  /\ \A j \in 1..(i - 1) : SeparatedOnAnAxis(BoxOf(r[i]), BoxOf(r[j]))

----------------------------------------------------------------------------
(* uniformPackingOptimization on its own *)

\* the package types of the uniform runs: two of which one box fills the
\* footprint, one that the weight limit holds to one box, and a smaller one
UniformSpecs ==
    { BoxSpec(3, 2, 2, 3, "horizontal"),
      BoxSpec(2, 2, 2, 5, "horizontal"),
      BoxSpec(1, 1, 2, 5, "all"),
      BoxSpec(2, 1, 1, 2, "horizontal") }

\* the package lists of the uniform runs: up to four packages of different
\* types
UniformLists ==
    { list \in ListsUpTo(UniformSpecs, {1, MaxDuplicate}, 4) :
          \A i, j \in 1..Len(list) : i # j => list[i][1] # list[j][1] }

NextUniform ==
    \/ \E cfg \in Configs : Construct(cfg)
    \/ \E list \in UniformLists : StrategyCall("uniform", list)

SpecUniform == Init /\ [][NextUniform]_vars

\* the number of boxes of weight w, out of n, that the weight cap admits
Admitted(n, w) ==
    CHOOSE k \in 0..n :
        /\ k * w <= palletConfig.maxWeight
        /\ k = n \/ (k + 1) * w > palletConfig.maxWeight

\* the smallest of three numbers
Min3(a, b, c) == CHOOSE m \in {a, b, c} : m <= a /\ m <= b /\ m <= c

\* min(n, floor(length / l) * floor(width / wd) * floor(loadHeight / h),
\* number admitted by the weight cap) for a type and one of its rotations
GridSize(type, rotation) ==
    Min3(Len(type.packages),
         (palletConfig.length \div rotation.length)
             * (palletConfig.width \div rotation.width)
             * (palletConfig.loadHeight \div rotation.height),
         Admitted(Len(type.packages), type.weight))

\* the boxes are the first boxes of the type, all in the rotation, each in a
\* cell of its own of the grid of rows, columns and layers of the rotation
IsGrid(placed, type, rotation) ==
    /\ \A i \in 1..Len(placed) :
          /\ placed[i].id = type.packages[i].id
          /\ placed[i].rotation = rotation.rotationAngles
          /\ <<placed[i].actualLength, placed[i].actualWidth, placed[i].actualHeight>>
                = <<rotation.length, rotation.width, rotation.height>>
          /\ \E row \in 0..(palletConfig.length \div rotation.length - 1),
                col \in 0..(palletConfig.width \div rotation.width - 1),
                layer \in 0..(palletConfig.loadHeight \div rotation.height - 1) :
                 /\ placed[i].x = row * rotation.length
                 /\ placed[i].z = col * rotation.width
                 /\ placed[i].y = palletConfig.baseHeight + layer * rotation.height
    /\ \A i, j \in 1..Len(placed) :
          i # j => <<placed[i].x, placed[i].y, placed[i].z>>
                      # <<placed[j].x, placed[j].y, placed[j].z>>

\* the result is the grid of the first rotation of the largest grid size
IsLargestGrid(placed, type) ==
    LET rotations == generateRotations(type.packages[1])
    IN  \E r \in 1..Len(rotations) :
            /\ \A q \in 1..Len(rotations) :
                  GridSize(type, rotations[q]) <= GridSize(type, rotations[r])
            /\ \A q \in 1..(r - 1) :
                  GridSize(type, rotations[q]) < GridSize(type, rotations[r])
            /\ Len(placed) = GridSize(type, rotations[r])
            /\ IsGrid(placed, type, rotations[r])

\* the types of the packages of the uniform run, the most numerous first
RunTypes == groupPackagesByType(expandPackages(strategyRun.packages))

\* what optimizeForSingleType returns for a type of the run
SingleTypeResult(t) == optimizeForSingleType(FreshEngine, RunTypes[t]).result

\* C28: for a box type with n instances of weight w, optimizeForSingleType
\* returns a uniform grid in one rotation whose size is the maximum over the
\* allowed rotations (l, wd, h) of min(n, floor(length / l) * floor(width / wd)
\* * floor(loadHeight / h), number of instances admitted by the weight cap),
\* the first rotation winning ties; uniformPackingOptimization returns the
\* largest such result among the three most numerous types (the result of
\* the first of them when several are the largest, nothing when all are empty)
C28_UniformGrid ==
    (strategyRun # << >> /\ strategyRun.strategy = "uniform") =>
        /\ \A t \in 1..Len(RunTypes) : IsLargestGrid(SingleTypeResult(t), RunTypes[t])
        /\ \A t \in 1..Len(RunTypes) :
              t <= 3 => Len(SingleTypeResult(t)) <= Len(strategyRun.result)
        /\ \/ /\ strategyRun.result = << >>
              /\ \A t \in 1..Len(RunTypes) : t <= 3 => SingleTypeResult(t) = << >>
           \/ \E t \in 1..Len(RunTypes) :
                 /\ t <= 3
                 /\ strategyRun.result = SingleTypeResult(t)
                 /\ strategyRun.result # << >>
                 /\ \A e \in 1..(t - 1) :
                       Len(SingleTypeResult(e)) < Len(strategyRun.result)

\* four types were submitted; the grid returned is that of the second type,
\* limited by the weight cap, in the first of several rotations of the same
\* grid size; the grid of the fourth type is larger
C28_Witness ==
    /\ strategyRun # << >>
    /\ strategyRun.strategy = "uniform"
    /\ Len(RunTypes) = 4
    /\ strategyRun.result = SingleTypeResult(2)
    /\ Len(SingleTypeResult(1)) < Len(strategyRun.result)
    /\ Len(SingleTypeResult(4)) > Len(strategyRun.result)
    /\ Len(strategyRun.result) = Admitted(Len(RunTypes[2].packages), RunTypes[2].weight)
    /\ Len(strategyRun.result) < Len(RunTypes[2].packages)
    /\ \E q \in 2..Len(generateRotations(RunTypes[2].packages[1])) :
          GridSize(RunTypes[2], generateRotations(RunTypes[2].packages[1])[q])
              = Len(strategyRun.result)

----------------------------------------------------------------------------
\* The page (src/src/pages/Index.tsx): its state, its event handlers, and the
\* part of handleOptimizePacking that runs after the delay

\* the packages the form can add
PageSpecs ==
    { BoxSpec(2, 1, 1, 2, "horizontal"), BoxSpec(1, 1, 2, 5, "all") }

\* the changes of one field the configuration form can make
ConfigChanges ==
    { <<"maxWeight", 6>>, <<"maxWeight", 10>> }

\* useEffect(..., [packages, placedPackages, palletConfig]): the statistics
\* follow every change of the three
withStats(p) ==
    [p EXCEPT !.stats = calculatePackageStats(p.packages, p.placedPackages,
                                              p.palletConfig)]

\* no handler is running (an optimisation may wait for its timer)
PageIdle == page # << >> /\ page.pc = "idle"

\* the page is opened and the pallet form is filled with cfg: the state
\* variables of the component with their initial values, palletConfig after
\* the form's changes. `pending` is what the waiting continuation of
\* handleOptimizePacking has captured, `added` the number of packages added
\* so far (every added package gets a fresh id), `stored` whether the last
\* result stored was computed from the packages and from the configuration
\* the page had at that moment
OpenPage(cfg) ==
    /\ page = << >>
    /\ page' = withStats(
                 [palletConfig   |-> cfg,
                  packages       |-> << >>,
                  placedPackages |-> << >>,
                  stats          |-> << >>,
                  isOptimizing   |-> FALSE,
                  pending        |-> << >>,
                  added          |-> 0,
                  stored         |-> << >>,
                  pc             |-> "idle"])
    /\ UNCHANGED <<constructed, palletConfig, placedPackages, availablePositions,
                   packages, result, trials, stats, packageStats, packed, reused,
                   call, rotated, strategyRun, layerRun>>

\* handleAddPackage: setPackages(prev => [...prev, pkg]); the id is a uuid
handleAddPackage(spec, count) ==
    /\ PageIdle
    /\ page.added < MaxAdded
    /\ \E pkg \in { Package(page.added + 1, spec, count) } :
           page' = withStats([page EXCEPT !.packages = Append(@, pkg),
                                          !.added = @ + 1])
    /\ UNCHANGED <<constructed, palletConfig, placedPackages, availablePositions,
                   packages, result, trials, stats, packageStats, packed, reused,
                   call, rotated, strategyRun, layerRun>>

\* pkg.id.startsWith(id)
startsWith(s, prefix) ==
    /\ Len(prefix) <= Len(s)
    /\ SubSeq(s, 1, Len(prefix)) = prefix

\* handleRemovePackage(id) of a listed package
handleRemovePackage(k) ==
    /\ PageIdle
    /\ k \in 1..Len(page.packages)
    /\ \E id \in { page.packages[k].id } :
           page' = withStats(
                     [page EXCEPT
                        !.packages = SelectSeq(@, LAMBDA pkg : pkg.id # id),
                        !.placedPackages =
                            SelectSeq(@, LAMBDA pkg : ~startsWith(pkg.id, id))])
    /\ UNCHANGED <<constructed, palletConfig, placedPackages, availablePositions,
                   packages, result, trials, stats, packageStats, packed, reused,
                   call, rotated, strategyRun, layerRun>>

\* onChange of the pallet form: one field gets a new value
setPalletConfig(field, value) ==
    /\ PageIdle
    /\ page.palletConfig[field] # value
    /\ page' = withStats([page EXCEPT !.palletConfig[field] = value])
    /\ UNCHANGED <<constructed, palletConfig, placedPackages, availablePositions,
                   packages, result, trials, stats, packageStats, packed, reused,
                   call, rotated, strategyRun, layerRun>>

\* handleOptimizePacking up to the await: the button is enabled, the handler
\* takes the packages and the configuration of this render with it
OptimizeStart ==
    /\ PageIdle
    /\ ~page.isOptimizing
    /\ Len(page.packages) > 0
    /\ page' = [page EXCEPT
                  !.isOptimizing = TRUE,
                  !.pending = [packages     |-> page.packages,
                               palletConfig |-> page.palletConfig]]
    /\ UNCHANGED <<constructed, palletConfig, placedPackages, availablePositions,
                   packages, result, trials, stats, packageStats, packed, reused,
                   call, rotated, strategyRun, layerRun>>

\* the timer fires: new BinPackingAlgorithm(palletConfig) with the
\* configuration the handler took with it
OptimizeResume ==
    /\ PageIdle
    /\ page.pending # << >>
    /\ constructed' = TRUE
    /\ palletConfig' = page.pending.palletConfig
    /\ placedPackages' = << >>
    /\ availablePositions' = << Pos(0, page.pending.palletConfig.baseHeight, 0) >>
    /\ page' = [page EXCEPT !.pc = "resumed"]
    /\ UNCHANGED <<packages, result, trials, stats, packageStats, packed, reused,
                   call, rotated, strategyRun, layerRun>>

\* algorithm.packPackages(packages) with the packages the handler took with
\* it, setPlacedPackages(result), and setIsOptimizing(false) of the finally
\* block. `algorithm` is a local of the handler: no engine is left when the
\* handler has returned
OptimizeStore ==
    /\ page # << >>
    /\ page.pc = "resumed"
    /\ \E run \in {packPackages(Engine(placedPackages, availablePositions),
                                page.pending.packages)} :
           page' = withStats(
                     [page EXCEPT
                        !.placedPackages = run.result,
                        !.isOptimizing = FALSE,
                        !.pending = << >>,
                        !.pc = "idle",
                        !.stored =
                            [packages     |-> page.pending.packages = page.packages,
                             palletConfig |-> page.pending.palletConfig
                                                  = page.palletConfig]])
    /\ constructed' = FALSE
    /\ palletConfig' = NoConfig
    /\ placedPackages' = << >>
    /\ availablePositions' = << >>
    /\ UNCHANGED <<packages, result, trials, stats, packageStats, packed, reused,
                   call, rotated, strategyRun, layerRun>>

\* handleReset: the button is enabled while something is placed
handleReset ==
    /\ PageIdle
    /\ Len(page.placedPackages) > 0
    /\ page' = withStats([page EXCEPT !.placedPackages = << >>])
    /\ UNCHANGED <<constructed, palletConfig, placedPackages, availablePositions,
                   packages, result, trials, stats, packageStats, packed, reused,
                   call, rotated, strategyRun, layerRun>>

NextIndex ==
    \/ OpenPage(Config(3, 2, 1, 2, 10))
    \/ \E spec \in PageSpecs : handleAddPackage(spec, MaxDuplicate)
    \/ \E k \in 1..MaxAdded : handleRemovePackage(k)
    \/ \E change \in ConfigChanges : setPalletConfig(change[1], change[2])
    \/ OptimizeStart
    \/ OptimizeResume
    \/ OptimizeStore
    \/ handleReset

SpecIndex == Init /\ [][NextIndex]_vars

\* the placed package belongs to a package of the list
BelongsTo(placed, pkgs) ==
    \E k \in 1..Len(pkgs) :
        \E n \in 0..(pkgs[k].duplicateCount - 1) :
            placed.id = instanceId(pkgs[k].id, n)

\* C29: whatever events arrive and whenever (also between the press of
\* Optimize and the storing of its result), every placed package the page
\* holds belongs to a package of the page's list, and the placed packages
\* were computed from the package list and the pallet configuration the
\* page had when they were stored
C29_PlacedFollowPage ==
    (page # << >>) =>
        /\ \A i \in 1..Len(page.placedPackages) :
               BelongsTo(page.placedPackages[i], page.packages)
        /\ Len(page.placedPackages) > 0 =>
               /\ page.stored.packages
               /\ page.stored.palletConfig

====
